---- MODULE Spec2Model ----
(***************************************************************************)
(* Model of the SQL agent of Analytical-Company (src/ai/sql_agent.py) and  *)
(* of the query executor it drives (src/utils/database_query.py).          *)
(*                                                                         *)
(* Text is modelled as a sequence of tokens.  A token is either a word (a  *)
(* maximal run of [A-Za-z0-9_]) or one punctuation sign (a Markdown code   *)
(* fence is the one sign "[fence]"); white space is                        *)
(* dropped, so two neighbouring word tokens are exactly two words that are *)
(* separated by white space only.  Every regular expression of the source  *)
(* that the model covers is anchored on word boundaries, so it matches     *)
(* whole tokens.  Functions of the characters of a word (lower-casing,     *)
(* substring tests, difflib similarity) are tables over the vocabulary.    *)
(***************************************************************************)
EXTENDS Integers, Sequences, FiniteSets, TLC

(***************************************************************************)
(* Bounds of the model.                                                    *)
(***************************************************************************)
MaxRequests == 2
MaxRows == 1

(***************************************************************************)
(* Vocabulary tables.                                                      *)
(***************************************************************************)
Punct == {",", ".", "(", ")", "=", "*", ";", ":", "/", "?", "[fence]", "[-]"}

\* The quoted identifiers: [-] is the name "-", in which no regular expression
\* of the program finds a word.
QuotedNames == {"[-]"}

Years == {2025}

NumberTokens ==
    {"0", "1", "2", "10", "100", "168"}
        \cup {ToString(n) : n \in Years \cup {y - 1 : y \in Years} \cup (1..4)}

\* The words of the vocabulary that are not lower-case, with their lower case.
LowerMap ==
    ("AND" :> "and") @@ ("AS" :> "as") @@ ("BY" :> "by") @@ ("CASE" :> "case") @@
    ("COUNT" :> "count") @@ ("DESC" :> "desc") @@ ("DISTINCT" :> "distinct") @@
    ("DROP" :> "drop") @@ ("DW_DIM_TICKET" :> "dw_dim_ticket") @@
    ("Desculpe" :> "desculpe") @@ ("ELSE" :> "else") @@ ("END" :> "end") @@
    ("FROM" :> "from") @@ ("GROUP" :> "group") @@ ("HAVING" :> "having") @@
    ("IS" :> "is") @@ ("JOIN" :> "join") @@ ("LIMIT" :> "limit") @@ ("NOT" :> "not") @@
    ("NULL" :> "null") @@ ("Note" :> "note") @@ ("ON" :> "on") @@ ("ORDER" :> "order") @@
    ("PRAGMA" :> "pragma") @@ ("ROUND" :> "round") @@ ("SELECT" :> "select") @@
    ("SQL" :> "sql") @@ ("SUM" :> "sum") @@ ("TABLE" :> "table") @@ ("THEN" :> "then") @@
    ("WHEN" :> "when") @@ ("WHERE" :> "where") @@ ("WITH" :> "with")

\* str.lower() / re.IGNORECASE on one word.
Lower(w) == IF w \in DOMAIN LowerMap THEN LowerMap[w] ELSE w

IsWord(t) == t \notin Punct

\* [A-Za-z][A-Za-z0-9_]* : a word that does not start with a digit.
StartsWithLetter(t) == IsWord(t) /\ t \notin NumberTokens

\* Substring tests of _best_table_match, as the sets of (lower-case) vocabulary
\* words that contain the substring.
ContainsSales == {"sales_data"}
ContainsTimesheet == {"dw_fact_timesheet", "oltp_timesheets"}
ContainsTicket == {"dw_dim_ticket", "dw_fact_ticket", "oltp_tickets", "ticket_key"}
ContainsClient ==
    {"client_id", "client_key", "client_name", "clients", "dw_dim_client", "oltp_clients",
     "total_clientes"}
ContainsEmployee ==
    {"dw_dim_employee", "employee_id", "employee_key", "oltp_employee_skills", "oltp_employees"}
ContainsProject == {"dw_dim_project", "oltp_projects", "project_key", "project_name"}
ContainsCurrency == {"currency", "currency_key", "dw_dim_currency"}
ContainsDate == {"date", "date_key", "dw_dim_date"}

\* name.startswith("oltp_fact_"), with the suffix after it.
OltpFactSuffix == [w \in {"oltp_fact_billing"} |-> "billing"]

\* f"dw_fact_{suffix}"
DwFactName == [s \in {"billing"} |-> "dw_fact_billing"]

(***************************************************************************)
(* The tables that create_oltp_schema and create_dw_schema create, in the  *)
(* order of ORDER BY name (sqlite_sequence comes with AUTOINCREMENT).      *)
(***************************************************************************)
AllTables ==
    << "dw_dim_client", "dw_dim_currency", "dw_dim_date", "dw_dim_employee", "dw_dim_project",
       "dw_dim_ticket", "dw_fact_billing", "dw_fact_ticket", "dw_fact_timesheet",
       "oltp_assignments", "oltp_clients", "oltp_currencies", "oltp_employee_skills",
       "oltp_employees", "oltp_invoices", "oltp_projects", "oltp_teams", "oltp_technologies",
       "oltp_tickets", "oltp_timesheets", "sqlite_sequence" >>

Range(s) == {s[i] : i \in DOMAIN s}

\* Position of a table in the sorted list: the order of Python's string
\* comparison between two table names.
TableRank(t) == CHOOSE i \in DOMAIN AllTables : AllTables[i] = t

\* Columns of the tables the vocabulary can query (CREATE TABLE statements).
TableColumns ==
    [t \in Range(AllTables) |->
        CASE t = "dw_dim_date" ->
                {"date_key", "date_iso", "day", "month", "month_name", "quarter", "year",
                 "week_of_year", "weekday", "weekday_name", "is_weekend"}
          [] t = "dw_dim_client" ->
                {"client_key", "client_id", "client_name", "industry", "size_segment",
                 "country", "state", "city"}
          [] t = "dw_dim_employee" ->
                {"employee_key", "employee_id", "full_name", "department", "role",
                 "manager_id", "team_id", "hire_date_key", "country", "state", "city"}
          [] t = "dw_dim_project" ->
                {"project_key", "project_id", "project_name", "client_key", "contract_type",
                 "technology_primary", "status", "team_id", "start_date_key", "end_date_key",
                 "currency"}
          [] t = "dw_dim_currency" -> {"currency_key", "code", "name"}
          [] t = "dw_dim_ticket" -> {"ticket_key", "ticket_id", "priority", "type"}
          [] t = "dw_fact_timesheet" ->
                {"fact_id", "date_key", "employee_key", "project_key", "hours", "billable"}
          [] t = "dw_fact_billing" ->
                {"fact_id", "date_key", "client_key", "project_key", "amount", "tax",
                 "currency_key", "status"}
          [] t = "dw_fact_ticket" ->
                {"fact_id", "open_date_key", "close_date_key", "project_key", "ticket_key",
                 "time_to_close_min", "sla_met", "status"}
          [] t = "oltp_currencies" -> {"code", "name", "rate_to_usd"}
          [] t = "oltp_clients" ->
                {"id", "name", "tax_id", "industry", "size_segment", "country", "state",
                 "city", "created_at"}
          [] OTHER -> {"id"}]

(***************************************************************************)
(* difflib.SequenceMatcher: for a word w and a table t, <<w, t, m, n>>     *)
(* says that the matching blocks of (t, w) have total size m and that      *)
(* len(w) + len(t) = n, so that ratio() = 2m/n.  The table lists the pairs *)
(* with ratio() >= 0.6 for every vocabulary word that can be a missing     *)
(* table name: the words that are no table, and the two tables that can be *)
(* dropped.                                                                *)
(***************************************************************************)
Similarity ==
    { <<"clients", "dw_dim_client", 6, 20>>, <<"clients", "oltp_clients", 7, 19>>,
      <<"currency", "dw_dim_currency", 8, 23>>, <<"currency", "oltp_currencies", 7, 23>>,
      <<"dw_fact_billing", "dw_fact_billing", 15, 30>>,
      <<"dw_fact_billing", "dw_fact_ticket", 9, 29>>,
      <<"dw_fact_ticket", "dw_dim_ticket", 10, 27>>,
      <<"dw_fact_ticket", "dw_fact_billing", 9, 29>>,
      <<"dw_fact_ticket", "dw_fact_ticket", 14, 28>>,
      <<"dw_fact_ticket", "dw_fact_timesheet", 12, 31>>,
      <<"dw_fact_ticket", "oltp_tickets", 8, 26>>,
      <<"employee_id", "dw_dim_employee", 8, 26>>,
      <<"employee_id", "oltp_employee_skills", 10, 31>>,
      <<"employee_id", "oltp_employees", 8, 25>>,
      <<"employee_key", "oltp_employee_skills", 10, 32>>,
      <<"employee_key", "oltp_employees", 8, 26>>,
      <<"oltp_fact_billing", "dw_fact_billing", 13, 32>>,
      <<"oltp_fact_billing", "oltp_clients", 9, 29>>,
      <<"total_clientes", "oltp_clients", 10, 26>> }

(***************************************************************************)
(* SQLAgent._COLUMN_SYNONYMS, in dictionary order, and _DOTTABLE_COLS.     *)
(***************************************************************************)
_COLUMN_SYNONYMS ==
    << <<"client_id", "client_key">>, <<"customer_id", "client_key">>,
       <<"employee_id", "employee_key">>, <<"project_id", "project_key">>,
       <<"ticket_id", "ticket_key">>, <<"currency_id", "currency_key">>,
       <<"date", "date_key">>, <<"date_id", "date_key">>, <<"billing_date", "date_key">>,
       <<"billing_date_key", "date_key">>, <<"issue_date_key", "date_key">>,
       <<"start_date_key", "date_key">>, <<"end_date_key", "date_key">>,
       <<"invoice_amount", "amount">>, <<"value", "amount">>,
       <<"product_name", "project_name">> >>

SynonymKeys == {_COLUMN_SYNONYMS[i][1] : i \in DOMAIN _COLUMN_SYNONYMS}

SynonymValues == {_COLUMN_SYNONYMS[i][2] : i \in DOMAIN _COLUMN_SYNONYMS}

\* _COLUMN_SYNONYMS.get(name, name)
SynonymGet(name, default) ==
    IF name \in SynonymKeys
    THEN (CHOOSE p \in Range(_COLUMN_SYNONYMS) : p[1] = name)[2]
    ELSE default

_DOTTABLE_COLS ==
    {"client_key", "employee_key", "project_key", "ticket_key", "currency_key", "amount",
     "tax", "date_key", "year", "month", "quarter", "week_of_year", "project_name",
     "client_name"}

(***************************************************************************)
(* Regular-expression helpers on token sequences.                          *)
(***************************************************************************)
NoMatch == "<none>"

\* The tokens of sql from position i on.
Suffix(sql, i) == IF i > Len(sql) THEN << >> ELSE SubSeq(sql, i, Len(sql))

\* The tokens of sql before position i.
Prefix(sql, i) == IF i <= 1 THEN << >> ELSE SubSeq(sql, 1, i - 1)

\* The sequence that the function f on 1..n is.
AsSeq(f) == SubSeq(f, 1, Len(f))

\* src matches at position i, ignoring case.
MatchesAt(sql, i, src) ==
    /\ Len(src) > 0
    /\ i + Len(src) - 1 <= Len(sql)
    /\ \A k \in 1..Len(src) : Lower(sql[i + k - 1]) = Lower(src[k])

Least(S) == CHOOSE i \in S : \A j \in S : i <= j

\* The concatenation of chunks[lo], ..., chunks[hi].
RECURSIVE Flatten(_, _, _)
Flatten(chunks, lo, hi) ==
    IF lo > hi THEN << >>
    ELSE IF lo = hi THEN chunks[lo]
    ELSE LET mid == (lo + hi) \div 2
         IN  Flatten(chunks, lo, mid) \o Flatten(chunks, mid + 1, hi)

\* re.sub(pattern of src, dst, sql, flags=re.IGNORECASE) from position i on:
\* the leftmost match is replaced and the scan resumes after it.
RECURSIVE SubFrom(_, _, _, _)
SubFrom(sql, i, src, dst) ==
    LET starts == {j \in i..Len(sql) : MatchesAt(sql, j, src)}
    IN  IF starts = {} THEN Suffix(sql, i)
        ELSE SubSeq(sql, i, Least(starts) - 1) \o dst
                 \o SubFrom(sql, Least(starts) + Len(src), src, dst)

\* One entry of the mapping of _replace_identifiers.
ReplaceOne(sql, src, dst) ==
    IF src = << >> \/ dst = << >> \/ src = dst THEN sql ELSE SubFrom(sql, 1, src, dst)

\* mapping is the sequence of the items of the dictionary, each <<src, dst>>
\* with src and dst token sequences.
RECURSIVE _replace_identifiers(_, _)
_replace_identifiers(sql, mapping) ==
    IF sql = << >> \/ mapping = << >> THEN sql
    ELSE _replace_identifiers(ReplaceOne(sql, mapping[1][1], mapping[1][2]), Tail(mapping))

\* dict[k] = v on a dictionary kept as the sequence of its items.
DictSet(d, k, v) ==
    IF \E i \in DOMAIN d : d[i][1] = k
    THEN AsSeq([i \in DOMAIN d |-> IF d[i][1] = k THEN <<k, v>> ELSE d[i]])
    ELSE Append(d, <<k, v>>)

DictKeys(d) == {d[i][1] : i \in DOMAIN d}

DictValues(d) == {d[i][2] : i \in DOMAIN d}

DictGet(d, k) == (CHOOSE p \in Range(d) : p[1] = k)[2]

\* The matches of the pattern of _extract_tables from position i on.
RECURSIVE _extract_tables_from(_, _)
_extract_tables_from(sql, i) ==
    LET starts == {j \in i..(Len(sql) - 1) :
                      Lower(sql[j]) \in {"from", "join"} /\ IsWord(sql[j + 1])}
    IN  IF starts = {} THEN << >>
        ELSE <<sql[Least(starts) + 1]>> \o _extract_tables_from(sql, Least(starts) + 2)

\* re.findall(r"\b(?:FROM|JOIN)\s+([`\"']?)([A-Za-z0-9_]+)\1", ...)
_extract_tables(sql) == _extract_tables_from(sql, 1)

AliasStopWords ==
    {"on", "where", "group", "order", "left", "right", "inner", "outer", "join"}

\* Where the alias of the match that starts at i (a FROM or JOIN) ends: 0 when
\* the pattern does not match at i.
AliasEnd(sql, i) ==
    IF ~(/\ Lower(sql[i]) \in {"from", "join"}
         /\ i + 2 <= Len(sql)
         /\ IsWord(sql[i + 1])
         /\ IsWord(sql[i + 2]))
    THEN 0
    ELSE IF /\ Lower(sql[i + 2]) = "as"
            /\ i + 3 <= Len(sql)
            /\ StartsWithLetter(sql[i + 3])
         THEN i + 3
         ELSE IF StartsWithLetter(sql[i + 2]) THEN i + 2 ELSE 0

\* The loop over re.finditer from position i on.
RECURSIVE _extract_table_aliases_from(_, _, _)
_extract_table_aliases_from(sql, i, aliases) ==
    LET starts == {j \in i..Len(sql) : AliasEnd(sql, j) # 0}
        m == Least(starts)
        e == AliasEnd(sql, m)
    IN  IF starts = {} THEN aliases
        ELSE _extract_table_aliases_from(sql, e + 1,
                 IF Lower(sql[e]) \in AliasStopWords THEN aliases
                 ELSE DictSet(aliases, sql[m + 1], sql[e]))

\* {table_name: alias}, as the sequence of the items of the dictionary.
_extract_table_aliases(sql) == _extract_table_aliases_from(sql, 1, << >>)

\* tbl_alias.get(table)
AliasOf(tbl_alias, table) ==
    IF table \in DictKeys(tbl_alias) THEN DictGet(tbl_alias, table) ELSE NoMatch

(***************************************************************************)
(* Cleaning of a text completion (sql_agent.py, lines 309-351).            *)
(***************************************************************************)
\* re.sub(r'```sql\s*', '', text) and then re.sub(r'```\s*', '', t): a fence
\* goes, and so does the word sql that a fence opens with.
DropFences(t) ==
    Flatten([i \in DOMAIN t |->
                IF \/ t[i] = "[fence]"
                   \/ i > 1 /\ t[i - 1] = "[fence]" /\ Lower(t[i]) = "sql"
                THEN << >> ELSE <<t[i]>>], 1, Len(t))

SqlLabels == {<<"query", "sql">>, <<"consulta", "sql">>, <<"sql", "query">>}

IsLabelAt(t, i) ==
    /\ i >= 1 /\ i + 2 <= Len(t)
    /\ <<Lower(t[i]), Lower(t[i + 1])>> \in SqlLabels /\ t[i + 2] = ":"

\* re.sub(r'(?i)\b(query sql|consulta sql|sql query)\s*:\s*', '', t)
DropLabels(t) ==
    Flatten([i \in DOMAIN t |->
                IF IsLabelAt(t, i) \/ IsLabelAt(t, i - 1) \/ IsLabelAt(t, i - 2)
                THEN << >> ELSE <<t[i]>>], 1, Len(t))

\* Position of the first ";" of t, or Len(t) + 1.
FirstSemicolon(t) ==
    IF \E i \in DOMAIN t : t[i] = ";"
    THEN CHOOSE i \in DOMAIN t : t[i] = ";" /\ \A j \in 1..(i - 1) : t[j] # ";"
    ELSE Len(t) + 1

\* [p.strip() for p in re.split(r';\s*', t) if p.strip()]
RECURSIVE SplitStatements(_)
SplitStatements(t) ==
    IF t = << >> THEN << >>
    ELSE LET k == FirstSemicolon(t)
             head == Prefix(t, k)
             rest == SplitStatements(Suffix(t, k + 1))
         IN  IF head = << >> THEN rest ELSE <<head>> \o rest

SqlStartWords == {"select", "with", "insert", "update", "delete"}

\* _is_sql_start: the part begins with one of the statement keywords.
IsSqlStart(p) == p # << >> /\ Lower(p[1]) \in SqlStartWords

_ensure_single_statement(text) ==
    LET t == DropLabels(DropFences(text))
        parts == SplitStatements(t)
    IN  IF parts = << >> THEN t
        ELSE IF \E i \in DOMAIN parts : IsSqlStart(parts[i])
             THEN parts[CHOOSE i \in DOMAIN parts :
                          /\ IsSqlStart(parts[i])
                          /\ \A j \in 1..(i - 1) : ~IsSqlStart(parts[j])]
             ELSE parts[1]

ExplanationWords == {"explica", "explanation", "note", "obs"}

\* The two-word alternatives of the pattern that are plain ASCII.
ExplanationPhrases == {<<"this", "query">>, <<"essa", "consulta">>}

IsExplanationAt(t, i) ==
    \/ Lower(t[i]) \in ExplanationWords
    \/ i + 1 <= Len(t) /\ <<Lower(t[i]), Lower(t[i + 1])>> \in ExplanationPhrases

_strip_trailing_explanation(sql) ==
    LET s1 == Prefix(sql, FirstSemicolon(sql))
    IN  IF \E i \in DOMAIN s1 : IsExplanationAt(s1, i)
        THEN Prefix(s1, CHOOSE i \in DOMAIN s1 :
                          /\ IsExplanationAt(s1, i)
                          /\ \A j \in 1..(i - 1) : ~IsExplanationAt(s1, j))
        ELSE s1

\* m = re.search(r'(?is)\b(select|with)\b.*', sql): the text from the first
\* SELECT or WITH on, the whole text when there is none.
FromSelect(one) ==
    IF \E i \in DOMAIN one : Lower(one[i]) \in {"select", "with"}
    THEN Suffix(one, CHOOSE i \in DOMAIN one :
                       /\ Lower(one[i]) \in {"select", "with"}
                       /\ \A j \in 1..(i - 1) : Lower(one[j]) \notin {"select", "with"})
    ELSE one

_clean_sql_response(response) ==
    _strip_trailing_explanation(FromSelect(_ensure_single_statement(response)))

(***************************************************************************)
(* Identifier normalisation (sql_agent.py, lines 197-304 and 353-469).     *)
(***************************************************************************)
\* difflib.get_close_matches(word, possibilities, n=1, cutoff=num/den): the
\* possibility of highest ratio, the greater string on a tie.
get_close_matches(word, possibilities, num, den) ==
    LET cands == {e \in Similarity :
                    /\ e[1] = word
                    /\ e[2] \in possibilities
                    /\ 2 * e[3] * den >= num * e[4]}
        Better(c, d) ==
            \/ c[3] * d[4] > d[3] * c[4]
            \/ c[3] * d[4] = d[3] * c[4] /\ TableRank(c[2]) >= TableRank(d[2])
    IN  IF cands = {} THEN NoMatch
        ELSE (CHOOSE c \in cands : \A d \in cands : Better(c, d))[2]

\* dim_map of _best_table_match, in dictionary order.
DimMap ==
    << <<ContainsClient, "dw_dim_client">>, <<ContainsEmployee, "dw_dim_employee">>,
       <<ContainsProject, "dw_dim_project">>, <<ContainsCurrency, "dw_dim_currency">>,
       <<ContainsDate, "dw_dim_date">>, <<ContainsTicket, "dw_dim_ticket">> >>

\* _best_table_match with heuristics that do not look at the table list.
_best_table_matchUnchecked(missing, available) ==
    LET name == Lower(missing)
        hits == {i \in DOMAIN DimMap : name \in DimMap[i][1]}
    IN  IF missing = "" \/ available = {} THEN NoMatch
        ELSE IF name \in ContainsSales THEN "dw_fact_billing"
        ELSE IF name \in ContainsTimesheet THEN "dw_fact_timesheet"
        ELSE IF name \in ContainsTicket THEN "dw_fact_ticket"
        ELSE IF name \in DOMAIN OltpFactSuffix THEN DwFactName[OltpFactSuffix[name]]
        ELSE IF hits # {}
             THEN DimMap[CHOOSE i \in hits : \A j \in hits : i <= j][2]
        ELSE get_close_matches(missing, available, 6, 10)

_best_table_match(missing, available) ==
    LET name == Lower(missing)
        hits == {i \in DOMAIN DimMap : name \in DimMap[i][1] /\ DimMap[i][2] \in available}
    IN  IF missing = "" \/ available = {} THEN NoMatch
        ELSE IF name \in ContainsSales /\ "dw_fact_billing" \in available
             THEN "dw_fact_billing"
        ELSE IF name \in ContainsTimesheet /\ "dw_fact_timesheet" \in available
             THEN "dw_fact_timesheet"
        ELSE IF name \in ContainsTicket /\ "dw_fact_ticket" \in available
             THEN "dw_fact_ticket"
        ELSE IF name \in DOMAIN OltpFactSuffix /\ DwFactName[OltpFactSuffix[name]] \in available
             THEN DwFactName[OltpFactSuffix[name]]
        ELSE IF hits # {}
             THEN DimMap[CHOOSE i \in hits : \A j \in hits : i <= j][2]
        ELSE get_close_matches(missing, available, 6, 10)

_map_table_alias(table_name, learned, available) ==
    IF table_name \in DictKeys(learned) /\ DictGet(learned, table_name) \in available
    THEN DictGet(learned, table_name)
    ELSE _best_table_match(table_name, available)

\* The regular expressions of "preferred", in dictionary order, each as the set
\* of the words it matches and its target.
Preferred ==
    << <<{"client", "clients"}, "dw_dim_client">>,
       <<{"customer", "customers"}, "dw_dim_client">>,
       <<{"cliente", "clientes"}, "dw_dim_client">>,
       <<{"employee", "employees"}, "dw_dim_employee">>,
       <<{"funcionario", "funcionarios"}, "dw_dim_employee">>,
       <<{"project", "projects"}, "dw_dim_project">>,
       <<{"projeto", "projetos"}, "dw_dim_project">>,
       <<{"produto", "produtos"}, "dw_dim_project">>,
       <<{"timesheet", "timesheets"}, "dw_fact_timesheet">>,
       <<{"hora", "horas"}, "dw_fact_timesheet">>,
       <<{"billing", "billings"}, "dw_fact_billing">>,
       <<{"receita", "receitas"}, "dw_fact_billing">>,
       <<{"faturamento"}, "dw_fact_billing">>,
       <<{"invoice", "invoices"}, "dw_fact_billing">>,
       <<{"fatura", "faturas"}, "dw_fact_billing">>,
       <<{"sale", "sales"}, "dw_fact_billing">>,
       <<{"ticket", "tickets"}, "dw_fact_ticket">>,
       <<{"date_dim"}, "dw_dim_date">>,
       <<{"dim_date"}, "dw_dim_date">>,
       <<{"data", "datas"}, "dw_dim_date">>,
       <<{"currency", "currencies"}, "dw_dim_currency">>,
       <<{"moeda", "moedas"}, "dw_dim_currency">>,
       <<{"dim_currency"}, "dw_dim_currency">>,
       <<{"dim_ticket"}, "dw_dim_ticket">>,
       <<{"dw_fact_sales"}, "dw_fact_billing">>,
       <<{"oltp_fact_sales"}, "dw_fact_billing">>,
       <<{"fact_sales"}, "dw_fact_billing">> >>

\* re.sub of one word pattern: every token the pattern matches becomes target.
SubWords(sql, words, target) ==
    AsSeq([i \in DOMAIN sql |-> IF Lower(sql[i]) \in words THEN target ELSE sql[i]])

\* Step 0 left out: the learned aliases are not applied.
ApplyLearnedSkipped(sql, learned, available) == sql

\* Step 0: the learned aliases, in dictionary order.
RECURSIVE ApplyLearned(_, _, _)
ApplyLearned(sql, learned, available) ==
    IF sql = << >> \/ learned = << >> THEN sql
    ELSE LET wrong == learned[1][1]
             right == learned[1][2]
         IN  ApplyLearned(IF right \in available /\ wrong # ""
                          THEN SubFrom(sql, 1, <<wrong>>, <<right>>)
                          ELSE sql,
                          Tail(learned), available)

\* Step 1: the synonyms of "preferred".
RECURSIVE ApplyPreferred(_, _, _)
ApplyPreferred(sql, preferred, available) ==
    IF sql = << >> \/ preferred = << >> THEN sql
    ELSE ApplyPreferred(IF preferred[1][2] \in available
                        THEN SubWords(sql, preferred[1][1], preferred[1][2])
                        ELSE sql,
                        Tail(preferred), available)

\* Step 2: oltp_fact_* -> dw_fact_* when the target exists (the suffix keeps
\* its case, and the words of the vocabulary with this prefix are lower-case).
_oltp_fact_to_dw(sql, available) ==
    AsSeq([i \in DOMAIN sql |->
              IF /\ sql[i] \in DOMAIN OltpFactSuffix
                 /\ DwFactName[OltpFactSuffix[sql[i]]] \in available
              THEN DwFactName[OltpFactSuffix[sql[i]]]
              ELSE sql[i]])

_normalize_table_names(sql_query, learned, available) ==
    IF sql_query = << >> THEN sql_query
    ELSE _oltp_fact_to_dw(
             ApplyPreferred(ApplyLearned(sql_query, learned, available), Preferred, available),
             available)

\* The matches of r"\b([A-Za-z][A-Za-z0-9_]*)\s+([A-Za-z][A-Za-z0-9_]*)\b" pair
\* up the words of every run of neighbouring words: first and second, third and
\* fourth, and so on.  Position i is the left word of a match.
IsPairLeft(sql, i) ==
    LET breaks == {j \in 1..(i - 1) : ~StartsWithLetter(sql[j])}
        run_start == IF breaks = {} THEN 1
                     ELSE (CHOOSE j \in breaks : \A k \in breaks : k <= j) + 1
    IN  /\ i >= 1 /\ i + 1 <= Len(sql)
        /\ StartsWithLetter(sql[i]) /\ StartsWithLetter(sql[i + 1])
        /\ (i - run_start) % 2 = 0

\* repl of _fix_alias_column_spacing: the match at i becomes left.right_norm.
IsSpacingFix(sql, i, aliases) ==
    /\ IsPairLeft(sql, i)
    /\ sql[i] \in aliases
    /\ SynonymGet(Lower(sql[i + 1]), sql[i + 1]) \in _DOTTABLE_COLS

_fix_alias_column_spacing(sql) ==
    LET aliases == DictValues(_extract_table_aliases(sql))
    IN  IF sql = << >> \/ aliases = {} THEN sql
        ELSE Flatten([i \in DOMAIN sql |->
                         IF IsSpacingFix(sql, i, aliases) THEN <<sql[i], ".">>
                         ELSE IF IsSpacingFix(sql, i - 1, aliases)
                              THEN <<SynonymGet(Lower(sql[i]), sql[i])>>
                              ELSE <<sql[i]>>], 1, Len(sql))

\* key_map of _normalize_join_keys, in dictionary order.
KeyMap ==
    << <<"client", "client_id", "client_key">>, <<"project", "project_id", "project_key">>,
       <<"employee", "employee_id", "employee_key">>, <<"ticket", "ticket_id", "ticket_key">>,
       <<"date", "date", "date_key">> >>

FactTables == <<"dw_fact_billing", "dw_fact_timesheet", "dw_fact_ticket">>

\* dim_aliases of _normalize_join_keys: entity and dimension table, in order.
DimTables ==
    << <<"client", "dw_dim_client">>, <<"project", "dw_dim_project">>,
       <<"employee", "dw_dim_employee">>, <<"ticket", "dw_dim_ticket">>,
       <<"date", "dw_dim_date">> >>

\* The replacements a.bad -> a.good of one alias for the given key_map items.
KeyReplacements(a, items) ==
    AsSeq([i \in DOMAIN items |-> << <<a, ".", items[i][2]>>, <<a, ".", items[i][3]>> >>])

RECURSIVE FactReplacements(_, _)
FactReplacements(tbl_alias, facts) ==
    IF facts = << >> THEN << >>
    ELSE (IF AliasOf(tbl_alias, facts[1]) # NoMatch
          THEN KeyReplacements(AliasOf(tbl_alias, facts[1]), KeyMap)
          ELSE << >>) \o FactReplacements(tbl_alias, Tail(facts))

RECURSIVE DimReplacements(_, _)
DimReplacements(tbl_alias, dims) ==
    IF dims = << >> THEN << >>
    ELSE (IF AliasOf(tbl_alias, dims[1][2]) # NoMatch
          THEN KeyReplacements(AliasOf(tbl_alias, dims[1][2]),
                               SelectSeq(KeyMap, LAMBDA k : k[1] = dims[1][1]))
          ELSE << >>) \o DimReplacements(tbl_alias, Tail(dims))

\* The synonyms with one more entry, from a canonical name to another name.
SynonymMappingChained ==
    AsSeq([i \in DOMAIN _COLUMN_SYNONYMS |->
              << <<_COLUMN_SYNONYMS[i][1]>>, <<_COLUMN_SYNONYMS[i][2]>> >>])
        \o << << <<"amount">>, <<"value">> >> >>

\* The raw synonyms as a mapping of _replace_identifiers.
SynonymMapping ==
    AsSeq([i \in DOMAIN _COLUMN_SYNONYMS |->
              << <<_COLUMN_SYNONYMS[i][1]>>, <<_COLUMN_SYNONYMS[i][2]>> >>])

_normalize_join_keys(sql) ==
    IF sql = << >> THEN sql
    ELSE LET tbl_alias == _extract_table_aliases(sql)
             replacements == FactReplacements(tbl_alias, FactTables)
                                 \o DimReplacements(tbl_alias, DimTables)
         IN  _replace_identifiers(_replace_identifiers(sql, replacements), SynonymMapping)

\* replace_map of _validate_and_autocorrect_sql: the missing tables that
\* _map_table_alias can map, in the order of the query.
RECURSIVE ReplaceMap(_, _, _, _)
ReplaceMap(missing, learned, available, acc) ==
    IF missing = << >> THEN acc
    ELSE LET target == _map_table_alias(missing[1], learned, available)
         IN  ReplaceMap(Tail(missing), learned, available,
                        IF target # NoMatch THEN DictSet(acc, missing[1], target) ELSE acc)

\* A dictionary of words as a mapping of _replace_identifiers.
WordMapping(d) == AsSeq([i \in DOMAIN d |-> << <<d[i][1]>>, <<d[i][2]>> >>])

\* The three rewriting passes that come before the lookup of missing tables.
NormalizePasses(sql_query, learned, available) ==
    _normalize_join_keys(
        _fix_alias_column_spacing(_normalize_table_names(sql_query, learned, available)))

\* Returns the corrected query and replace_map, the aliases the caller learns.
\* available is the list of _get_available_tables.
\* The end of _validate_and_autocorrect_sql: the replacements of replace_map.
ApplyReplaceMap(fixed, replace_map) ==
    IF replace_map = << >> THEN [sql |-> fixed, replace_map |-> << >>]
    ELSE [sql |-> _replace_identifiers(fixed, WordMapping(replace_map)),
          replace_map |-> replace_map]

\* The missing tables are left as they are.
MapMissingSkipped(fixed, missing, learned, available) == [sql |-> fixed, replace_map |-> << >>]

\* if missing: replace_map holds what _map_table_alias finds for each.
MapMissing(fixed, missing, learned, available) ==
    IF missing = << >> THEN [sql |-> fixed, replace_map |-> << >>]
    ELSE ApplyReplaceMap(fixed, ReplaceMap(missing, learned, available, << >>))

\* missing = [t for t in tables if t not in available]
MissingTables(fixed, available) ==
    SelectSeq(_extract_tables(fixed), LAMBDA t : t \notin available)

MapMissingTables(fixed, learned, available) ==
    MapMissing(fixed, MissingTables(fixed, available), learned, available)

\* The normaliser without "if not available: return sql_query".
ValidateCleanedUnguarded(cleaned, learned, available) ==
    IF cleaned = << >> THEN [sql |-> cleaned, replace_map |-> << >>]
    ELSE MapMissingTables(NormalizePasses(cleaned, learned, available), learned, available)

\* _validate_and_autocorrect_sql after sql = self._clean_sql_response(sql_query).
ValidateCleaned(cleaned, learned, available) ==
    IF available = {} \/ cleaned = << >> THEN [sql |-> cleaned, replace_map |-> << >>]
    ELSE MapMissingTables(NormalizePasses(cleaned, learned, available), learned, available)

_validate_and_autocorrect_sql(sql_query, learned, available) ==
    IF sql_query = << >> THEN [sql |-> sql_query, replace_map |-> << >>]
    ELSE ValidateCleaned(_clean_sql_response(sql_query), learned, available)

(***************************************************************************)
(* AnalyticalCompanyDB.execute_query (database_query.py, lines 467-478):   *)
(* what SQLite answers to the statements of the vocabulary, which are      *)
(* SELECT statements with joins and at most one leading WITH clause, DROP  *)
(* TABLE, and prose.                                                       *)
(***************************************************************************)
SqlKeywords ==
    {"select", "distinct", "from", "join", "on", "where", "group", "by", "order", "having",
     "limit", "as", "and", "not", "null", "is", "case", "when", "then", "else", "end",
     "desc", "with", "drop", "table"}

ClauseWords == {"select", "from", "where", "group", "order", "having", "limit", "on"}

\* A word that names a table, a column or an alias.
IsName(t) == IsWord(t) /\ Lower(t) \notin SqlKeywords /\ t \notin NumberTokens

TokenAt(sql, i) == IF i \in DOMAIN sql THEN sql[i] ELSE ""

\* The clause keyword that governs position i ("" when there is none).
LastClauseBefore(sql, i) ==
    LET S == {j \in 1..(i - 1) : Lower(sql[j]) \in ClauseWords}
    IN  IF S = {} THEN "" ELSE Lower(sql[CHOOSE j \in S : \A k \in S : k <= j])

\* Position i holds a table of a FROM clause.
IsTableRef(sql, i) ==
    /\ i \in DOMAIN sql /\ i > 1 /\ (IsName(sql[i]) \/ sql[i] \in QuotedNames)
    /\ \/ Lower(sql[i - 1]) \in {"from", "join"}
       \/ sql[i - 1] = "," /\ LastClauseBefore(sql, i) = "from"

TableRefs(sql) == {i \in DOMAIN sql : IsTableRef(sql, i)}

\* The name by which the columns of the table at position i are qualified.
RefAlias(sql, i) ==
    IF Lower(TokenAt(sql, i + 1)) = "as" /\ IsName(TokenAt(sql, i + 2)) THEN sql[i + 2]
    ELSE IF IsName(TokenAt(sql, i + 1)) THEN sql[i + 1]
    ELSE sql[i]

\* Position i holds the alias of the table at i - 1 or i - 2.
IsTableAlias(sql, i) ==
    \/ IsTableRef(sql, i - 1) /\ Lower(sql[i]) # "as"
    \/ IsTableRef(sql, i - 2) /\ Lower(sql[i - 1]) = "as"

\* WITH name AS ( ... ): the name, the closing parenthesis, the output columns.
HasCte(sql) ==
    /\ Len(sql) >= 5 /\ Lower(sql[1]) = "with" /\ IsName(sql[2])
    /\ Lower(sql[3]) = "as" /\ sql[4] = "("

Depth(sql, i) ==
    Cardinality({j \in 1..i : sql[j] = "("}) - Cardinality({j \in 1..i : sql[j] = ")"})

CteEnd(sql) ==
    LET S == {j \in 5..Len(sql) : Depth(sql, j) = 0}
    IN  IF S = {} THEN Len(sql) ELSE CHOOSE j \in S : \A k \in S : j <= k

CteColumns(sql) ==
    {Lower(sql[j + 1]) : j \in {k \in 5..(CteEnd(sql) - 2) : Lower(sql[k]) = "as"}}

\* The columns of the table named at position i, under the given schema.
ColumnsAt(sql, i) ==
    IF HasCte(sql) /\ Lower(sql[i]) = Lower(sql[2]) THEN CteColumns(sql)
    ELSE IF Lower(sql[i]) \in DOMAIN TableColumns THEN TableColumns[Lower(sql[i])]
    ELSE {}

TableExists(sql, i, tables) ==
    \/ Lower(sql[i]) \in tables
    \/ HasCte(sql) /\ Lower(sql[i]) = Lower(sql[2])

\* Position i names a result column or a table: it refers to no column.
IsAliasPosition(sql, i) ==
    /\ i > 1
    /\ \/ Lower(sql[i - 1]) = "as"
       \/ IsName(sql[i - 1])
       \/ sql[i - 1] = ")"
       \/ Lower(sql[i - 1]) = "with"

ResultAliases(sql) ==
    {Lower(sql[i]) : i \in {k \in DOMAIN sql :
        IsName(sql[k]) /\ IsAliasPosition(sql, k) /\ ~IsTableAlias(sql, k)}}

\* schema.table.column starting at i: no schema of the database has a name of
\* the vocabulary.
IsChain3(sql, i) ==
    /\ IsName(sql[i]) /\ TokenAt(sql, i - 1) # "."
    /\ TokenAt(sql, i + 1) = "." /\ IsName(TokenAt(sql, i + 2))
    /\ TokenAt(sql, i + 3) = "." /\ IsName(TokenAt(sql, i + 4))

\* qualifier.column starting at i.
IsQualified(sql, i) ==
    /\ IsName(sql[i]) /\ TokenAt(sql, i - 1) # "."
    /\ TokenAt(sql, i + 1) = "." /\ IsName(TokenAt(sql, i + 2))
    /\ TokenAt(sql, i + 3) # "."

QualifiedResolves(sql, i) ==
    \E r \in TableRefs(sql) :
        /\ Lower(RefAlias(sql, r)) = Lower(sql[i])
        /\ Lower(sql[i + 2]) \in ColumnsAt(sql, r)

\* A bare column at i.
IsBare(sql, i) ==
    /\ IsName(sql[i])
    /\ TokenAt(sql, i - 1) # "." /\ TokenAt(sql, i + 1) \notin {".", "("}
    /\ ~IsTableRef(sql, i) /\ ~IsAliasPosition(sql, i)

BareResolves(sql, i) ==
    \/ Lower(sql[i]) \in ResultAliases(sql)
    \/ \E r \in TableRefs(sql) : Lower(sql[i]) \in ColumnsAt(sql, r)

\* The positions where the name resolution of SQLite fails.
BadColumns(sql) ==
    {i \in DOMAIN sql :
        \/ IsChain3(sql, i)
        \/ IsQualified(sql, i) /\ ~QualifiedResolves(sql, i)
        \/ IsBare(sql, i) /\ ~BareResolves(sql, i)}

ColumnNameAt(sql, i) ==
    IF IsChain3(sql, i) THEN <<sql[i], ".", sql[i + 2], ".", sql[i + 4]>>
    ELSE IF IsQualified(sql, i) THEN <<sql[i], ".", sql[i + 2]>>
    ELSE <<sql[i]>>

ExecOk == [kind |-> "ok", name |-> << >>, dropped |-> {}]

ExecError(kind, name) == [kind |-> kind, name |-> name, dropped |-> {}]

\* query.strip().upper().startswith(("SELECT", "WITH"))
FetchesRows(query) == query # << >> /\ Lower(query[1]) \in {"select", "with"}

\* sqlite3 on one statement.
ExecuteStatement(query, tables) ==
    IF query = << >> THEN ExecOk
    ELSE IF Lower(query[1]) = "pragma" THEN ExecOk
    ELSE IF Lower(query[1]) = "drop"
         THEN IF Len(query) = 3 /\ Lower(query[2]) = "table" /\ IsName(query[3])
              THEN IF Lower(query[3]) \in tables
                   THEN [kind |-> "ok", name |-> << >>, dropped |-> {Lower(query[3])}]
                   ELSE ExecError("no such table", <<query[3]>>)
              ELSE ExecError("other", << >>)
    ELSE IF ~FetchesRows(query) THEN ExecError("other", << >>)
    ELSE LET absent == {i \in TableRefs(query) : ~TableExists(query, i, tables)}
             bad == BadColumns(query)
         IN  IF absent # {} THEN ExecError("no such table", <<query[Least(absent)]>>)
             ELSE IF bad # {}
                  THEN ExecError("no such column", ColumnNameAt(query, Least(bad)))
             ELSE ExecOk

\* The outcome of conn.execute(query) on a database with the given tables:
\* kind is "ok" or the message of the sqlite3 error, name what the message
\* names.  up says whether the database file can be opened.
OneStatementOnly(first, rest) ==
    IF first.kind = "ok" /\ rest # << >>
    THEN ExecError("only execute one statement", << >>)
    ELSE first

execute_query(query, tables, up) ==
    IF ~up THEN ExecError("other", << >>)
    ELSE OneStatementOnly(ExecuteStatement(Prefix(query, FirstSemicolon(query)), tables),
                          Suffix(query, FirstSemicolon(query) + 1))

(***************************************************************************)
(* The SQL texts of the program and of the language model.                 *)
(***************************************************************************)
\* PREDEFINED_QUERIES (database_query.py).
PREDEFINED_QUERIES ==
    ("receita_mensal" :>
            << "WITH", "bill", "AS", "(", "SELECT", "dd", ".", "year", "AS", "year", ",", "dd",
               ".", "month", "AS", "month", ",", "dc", ".", "code", "AS", "currency", ",",
               "SUM", "(", "fb", ".", "amount", ")", "AS", "amount", ",", "SUM", "(", "fb",
               ".", "tax", ")", "AS", "tax", "FROM", "dw_fact_billing", "fb", "JOIN",
               "dw_dim_date", "dd", "ON", "dd", ".", "date_key", "=", "fb", ".", "date_key",
               "JOIN", "dw_dim_currency", "dc", "ON", "dc", ".", "currency_key", "=", "fb",
               ".", "currency_key", "GROUP", "BY", "dd", ".", "year", ",", "dd", ".", "month",
               ",", "dc", ".", "code", ")", "SELECT", "b", ".", "year", ",", "b", ".", "month",
               ",", "b", ".", "currency", ",", "b", ".", "amount", ",", "b", ".", "tax", ",",
               "ROUND", "(", "b", ".", "amount", "*", "oc", ".", "rate_to_usd", ",", "2", ")",
               "AS", "amount_usd", ",", "ROUND", "(", "b", ".", "tax", "*", "oc", ".",
               "rate_to_usd", ",", "2", ")", "AS", "tax_usd", "FROM", "bill", "b", "JOIN",
               "oltp_currencies", "oc", "ON", "oc", ".", "code", "=", "b", ".", "currency",
               "ORDER", "BY", "b", ".", "year", ",", "b", ".", "month", ",", "b", ".",
               "currency" >>)
    @@ ("top_clientes" :>
            << "SELECT", "dc", ".", "client_name", ",", "SUM", "(", "fb", ".", "amount", ")",
               "as", "amount", "FROM", "dw_fact_billing", "fb", "JOIN", "dw_dim_client", "dc",
               "ON", "fb", ".", "client_key", "=", "dc", ".", "client_key", "GROUP", "BY",
               "dc", ".", "client_name", "ORDER", "BY", "amount", "DESC", "LIMIT", "10" >>)
    @@ ("utilizacao_recursos" :>
            << "SELECT", "dd", ".", "year", ",", "dd", ".", "month", ",", "SUM", "(", "ft",
               ".", "hours", ")", "as", "horas", ",", "COUNT", "(", "DISTINCT", "de", ".",
               "employee_id", ")", "as", "empregados_ativos", ",", "COUNT", "(", "DISTINCT",
               "de", ".", "employee_id", ")", "*", "168", "as", "capacidade_horas", ",",
               "ROUND", "(", "(", "SUM", "(", "ft", ".", "hours", ")", "*", "100", ".", "0",
               ")", "/", "(", "COUNT", "(", "DISTINCT", "de", ".", "employee_id", ")", "*",
               "168", ")", ",", "2", ")", "as", "utilizacao_pct", "FROM", "dw_fact_timesheet",
               "ft", "JOIN", "dw_dim_date", "dd", "ON", "ft", ".", "date_key", "=", "dd", ".",
               "date_key", "JOIN", "dw_dim_employee", "de", "ON", "ft", ".", "employee_key",
               "=", "de", ".", "employee_key", "GROUP", "BY", "dd", ".", "year", ",", "dd",
               ".", "month", "ORDER", "BY", "dd", ".", "year", ",", "dd", ".", "month" >>)
    @@ ("sla_tickets" :>
            << "SELECT", "dt", ".", "priority", ",", "COUNT", "(", "*", ")", "as", "qtd", ",",
               "SUM", "(", "CASE", "WHEN", "ft", ".", "sla_met", "=", "1", "THEN", "1", "ELSE",
               "0", "END", ")", "as", "dentro_sla", ",", "ROUND", "(", "(", "SUM", "(", "CASE",
               "WHEN", "ft", ".", "sla_met", "=", "1", "THEN", "1", "ELSE", "0", "END", ")",
               "*", "100", ".", "0", ")", "/", "COUNT", "(", "*", ")", ",", "2", ")", "as",
               "pct_sla", "FROM", "dw_fact_ticket", "ft", "JOIN", "dw_dim_ticket", "dt", "ON",
               "ft", ".", "ticket_key", "=", "dt", ".", "ticket_key", "GROUP", "BY", "dt", ".",
               "priority", "ORDER", "BY", "dt", ".", "priority" >>)

Intents ==
    {"count_clients", "list_clients", "list_products", "top_products", "revenue_quarter", "revenue_year"}

\* _build_sql_for_intent that knows no intent of the revenue.
_build_sql_for_intentPartial(intent, year, quarter) ==
    CASE intent = "count_clients" ->
            << "SELECT", "COUNT", "(", "*", ")", "AS", "total_clientes", "FROM",
               "dw_dim_client" >>
      [] intent = "list_clients" ->
            << "SELECT", "DISTINCT", "client_name", "FROM", "dw_dim_client", "ORDER", "BY",
               "client_name", "LIMIT", "100" >>
      [] OTHER -> << >>

\* The text of each intent; year and quarter are params["year"] and
\* params["quarter"].  Any other intent gives None, the empty text here.
_build_sql_for_intent(intent, year, quarter) ==
    CASE intent = "count_clients" ->
            << "SELECT", "COUNT", "(", "*", ")", "AS", "total_clientes", "FROM",
               "dw_dim_client" >>
      [] intent = "list_clients" ->
            << "SELECT", "DISTINCT", "client_name", "FROM", "dw_dim_client", "ORDER", "BY",
               "client_name", "LIMIT", "100" >>
      [] intent = "list_products" ->
            << "SELECT", "DISTINCT", "dp", ".", "project_name", "AS", "product_name", "FROM",
               "dw_dim_project", "dp", "WHERE", "dp", ".", "project_name", "IS", "NOT", "NULL",
               "ORDER", "BY", "dp", ".", "project_name", "LIMIT", "100" >>
      [] intent = "top_products" ->
            << "SELECT", "dp", ".", "project_name", "AS", "product_name", ",", "ROUND", "(",
               "SUM", "(", "fb", ".", "amount", ")", ",", "2", ")", "AS", "total_amount",
               "FROM", "dw_fact_billing", "fb", "JOIN", "dw_dim_project", "dp", "ON", "dp",
               ".", "project_key", "=", "fb", ".", "project_key", "GROUP", "BY", "dp", ".",
               "project_name", "HAVING", "dp", ".", "project_name", "IS", "NOT", "NULL",
               "ORDER", "BY", "total_amount", "DESC", "LIMIT", "10" >>
      [] intent = "revenue_quarter" ->
            << "SELECT", "dd", ".", "year", ",", "dd", ".", "quarter", ",", "ROUND", "(",
               "SUM", "(", "fb", ".", "amount", ")", ",", "2", ")", "AS", "receita_total",
               "FROM", "dw_fact_billing", "fb", "JOIN", "dw_dim_date", "dd", "ON", "dd", ".",
               "date_key", "=", "fb", ".", "date_key", "WHERE", "dd", ".", "year", "=",
               ToString(year), "AND", "dd", ".", "quarter", "=", ToString(quarter), "GROUP",
               "BY", "dd", ".", "year", ",", "dd", ".", "quarter", "ORDER", "BY", "dd", ".",
               "year", ",", "dd", ".", "quarter" >>
      [] intent = "revenue_year" ->
            << "SELECT", "dd", ".", "year", ",", "ROUND", "(", "SUM", "(", "fb", ".", "amount",
               ")", ",", "2", ")", "AS", "receita_total", "FROM", "dw_fact_billing", "fb",
               "JOIN", "dw_dim_date", "dd", "ON", "dd", ".", "date_key", "=", "fb", ".",
               "date_key", "WHERE", "dd", ".", "year", "=", ToString(year), "GROUP", "BY",
               "dd", ".", "year", "ORDER", "BY", "dd", ".", "year" >>
      [] OTHER -> << >>

\* What the language model may answer to the prompt of generate_sql_query.
LLMSqlTexts ==
    { << "[fence]", "sql", "SELECT", "COUNT", "(", "*", ")", "FROM", "clients", "c", "JOIN",
         "oltp_fact_billing", "b", "ON", "b", ".", "client_id", "=", "c", ".", "client_id",
         ";", "[fence]" >>,
      << "SELECT", "amount", "FROM", "sales_data" >>,
      << "SELECT", "client_name", "FROM", "sales_data" >>,
      << "SELECT", "c", ".", "client_name", "FROM", "dw_dim_client", "c", ",", "sales_data",
         "s" >>,
      << "SELECT", "foo", "FROM", "dw_dim_client" >>,
      << "SELECT", "*", "FROM", "zzz" >>,
      << "Desculpe", ",", "nao", "sei" >>,
      << "SELECT", "date", ".", "date_key", "month", "FROM", "dw_dim_date", "date" >>,
      << "DROP", "TABLE", "dw_fact_billing" >>,
      << "SELECT", "*", "FROM", "DW_DIM_TICKET" >>,
      << "SELECT", "*", "FROM", "[-]" >>,
      << >> }

\* What the language model may answer to the prompt of _fix_sql_query.
LLMFixTexts ==
    { << "SQL", "query", ":", "SELECT", "COUNT", "(", "*", ")", "FROM", "dw_dim_client", ";",
         "Note", ":", "corrected" >>,
      << "Desculpe", ",", "nao", "sei" >>,
      << >> }

(***************************************************************************)
(* Routing of the question (sql_agent.py, lines 474-515 and 646-657).  A   *)
(* question is a sequence of lower-case words without accents.             *)
(***************************************************************************)
Months == {1, 6}

\* _last_completed_quarter without the branch of the first quarter.
_last_completed_quarterNoWrap(year, month) == <<year, (month - 1) \div 3>>

\* _last_completed_quarter, for today = (year, month).
_last_completed_quarter(year, month) ==
    LET q == ((month - 1) \div 3) + 1
    IN  IF q = 1 THEN <<year - 1, 4>> ELSE <<year, q - 1>>

YearWords == {ToString(y) : y \in Years}

YearOf(w) == CHOOSE y \in Years : ToString(y) = w

NoIntent == [intent |-> NoMatch, year |-> 0, quarter |-> 0]

HasPair(t, firsts, seconds) ==
    \E i \in 1..(Len(t) - 1) : t[i] \in firsts /\ t[i + 1] \in seconds

HasWord(t, words) == \E i \in DOMAIN t : t[i] \in words

\* today_year and today_month are the fields of datetime.date.today().
_nl_intent(text, today_year, today_month) ==
    LET t == AsSeq([i \in DOMAIN text |-> Lower(text[i])])
        revenue == HasWord(t, {"receita", "receitas", "faturamento"})
        lq == _last_completed_quarter(today_year, today_month)
    IN  IF \/ HasPair(t, {"quantos", "qnt", "qtde"}, {"cliente", "clientes"})
           \/ t \in {<<"clientes">>, <<"n", "clientes">>, <<"total", "clientes">>}
        THEN [NoIntent EXCEPT !.intent = "count_clients"]
        ELSE IF \E i \in DOMAIN t : \E j \in DOMAIN t :
                    /\ i < j
                    /\ t[i] \in {"quem", "quais", "lista", "listar"}
                    /\ t[j] \in {"cliente", "clientes"}
        THEN [NoIntent EXCEPT !.intent = "list_clients"]
        ELSE IF HasWord(t, {"produto", "produtos"})
        THEN IF \/ HasPair(t, {"mais"}, {"compram", "comprados", "vendidos"})
                \/ HasWord(t, {"top", "ranking"})
             THEN [NoIntent EXCEPT !.intent = "top_products"]
             ELSE [NoIntent EXCEPT !.intent = "list_products"]
        ELSE IF HasPair(t, {"ultimo", "passado", "passada"}, {"trimestre", "trimestres"})
        THEN [intent |-> "revenue_quarter", year |-> lq[1], quarter |-> lq[2]]
        ELSE IF revenue /\ HasWord(t, YearWords)
        THEN [NoIntent EXCEPT !.intent = "revenue_year",
                              !.year = YearOf(t[Least({i \in DOMAIN t : t[i] \in YearWords})])]
        ELSE IF revenue /\ HasPair(t, {"este", "atual", "corrente"}, {"ano"})
        THEN [NoIntent EXCEPT !.intent = "revenue_year", !.year = today_year]
        ELSE NoIntent

\* query_mappings of check_predefined_queries, in dictionary order; a keyword
\* is the sequence of its words.
QueryMappings ==
    << <<"receita_mensal", {<<"receita", "mensal">>, <<"faturamento", "mensal">>}>>,
       <<"top_clientes", {<<"top", "clientes">>, <<"melhores", "clientes">>,
                          <<"maiores", "clientes">>, <<"ranking", "clientes">>}>>,
       <<"utilizacao_recursos", {<<"horas", "trabalhadas">>, <<"capacidade">>}>>,
       <<"sla_tickets", {<<"sla">>, <<"tickets">>, <<"sla", "tickets">>,
                         <<"performance", "tickets">>}>> >>

\* check_predefined_queries that finds no keyword.
check_predefined_queriesNone(user_input) == NoMatch

check_predefined_queries(user_input) ==
    LET user_lower == AsSeq([i \in DOMAIN user_input |-> Lower(user_input[i])])
        hits == {k \in DOMAIN QueryMappings :
                    \E keyword \in QueryMappings[k][2] :
                        \E i \in DOMAIN user_lower : MatchesAt(user_lower, i, keyword)}
    IN  IF hits = {} THEN NoMatch ELSE QueryMappings[Least(hits)][1]

\* The questions of the model.
UserInputs ==
    { <<"quantos", "clientes", "temos", "?">>, <<"quais", "clientes">>, <<"produtos">>,
      <<"top", "produtos">>, <<"receita", "do", "ultimo", "trimestre">>,
      <<"receita", "2025">>, <<"receita", "este", "ano">>, <<"receita", "mensal">>,
      <<"top", "clientes">>, <<"horas", "trabalhadas">>, <<"sla">>,
      <<"quais", "os", "melhores", "clientes">>, <<"pergunta", "livre">> }

(***************************************************************************)
(* The agent: helpers that read the database, learn aliases and ask the    *)
(* language model.                                                         *)
(***************************************************************************)
\* None: a local variable that holds no text.
None == <<NoMatch>>

\* The language model raising instead of answering.
LLMDown == <<"<down>">>

\* "if x:" on a text or None.
Truthy(text) == text # None /\ text # << >>

\* _get_available_tables: the tables, or [] when the query raises, which the
\* query on sqlite_master does only when the database cannot be opened.
_get_available_tables(tables, up) == IF up THEN tables ELSE {}

\* _get_table_columns: the rows that execute_query returns for the PRAGMA.
_get_table_columns(table, tables, up) ==
    LET query == <<"PRAGMA", "table_info", "(", table, ")">>
    IN  IF /\ FetchesRows(query)
           /\ execute_query(query, tables, up).kind = "ok"
           /\ Lower(table) \in DOMAIN TableColumns
        THEN TableColumns[Lower(table)]
        ELSE {}

\* _learn_alias on the dictionary; the file is written by _save_aliases.
_learn_alias(learned, wrong, correct) ==
    IF wrong # "" /\ correct # "" /\ wrong # correct
    THEN DictSet(learned, wrong, correct)
    ELSE learned

\* The dictionary after _learn_alias on the first k items of replace_map.
RECURSIVE LearnItems(_, _, _)
LearnItems(learned, replace_map, k) ==
    IF k = 0 THEN learned
    ELSE _learn_alias(LearnItems(learned, replace_map, k - 1),
                      replace_map[k][1], replace_map[k][2])

\* _save_aliases that keeps the entries the file holds and adds its own.
_save_aliasesMerged(file, learned, replace_map) ==
    {file} \cup
    {LearnItems(file, LearnItems(learned, replace_map, k),
                Len(LearnItems(learned, replace_map, k))) : k \in DOMAIN replace_map}

\* _save_aliases after each learned item: the write may fail, and the failure
\* is swallowed.  The file ends as the old file or as the dictionary of the
\* last write that succeeded.
_save_aliases(file, learned, replace_map) ==
    {file} \cup
    {LearnItems(learned, replace_map, k) :
        k \in {j \in DOMAIN replace_map :
                 replace_map[j][1] # "" /\ replace_map[j][2] # ""
                     /\ replace_map[j][1] # replace_map[j][2]}}

\* generate_sql_query on the answer of the language model.
generate_sql_query(answer) == _clean_sql_response(answer)

\* _fix_sql_query on the answer of the language model.
_fix_sql_query(answer) == IF answer = LLMDown THEN None ELSE _clean_sql_response(answer)

\* all_cols: the columns of the tables of the query, of every table when the
\* query has none.
AllColumns(table_cols, tables, up) ==
    IF table_cols # {} THEN table_cols
    ELSE UNION {_get_table_columns(t, tables, up) : t \in _get_available_tables(tables, up)}

\* The replacement of missing_col: its synonym, else the closest column, else
\* date_key for a date column.
FixMissingColumn(sql_query, missing_col, all_cols, best) ==
    IF Lower(missing_col) \in SynonymKeys
    THEN _replace_identifiers(sql_query,
             << <<<<missing_col>>, <<SynonymGet(Lower(missing_col), missing_col)>>>> >>)
    ELSE IF best # NoMatch
    THEN _replace_identifiers(sql_query, << <<<<missing_col>>, <<best>>>> >>)
    ELSE IF Lower(missing_col) \in {"date", "billing_date", "date_id"}
                /\ "date_key" \in all_cols
    THEN _replace_identifiers(sql_query, << <<<<missing_col>>, <<"date_key">>>> >>)
    ELSE None

ClosestColumn(sql_query, missing_col, all_cols) ==
    FixMissingColumn(sql_query, missing_col, all_cols,
                     get_close_matches(missing_col, all_cols, 7, 10))

\* _try_fix_missing_column; name is what the message "no such column" names.
_try_fix_missing_column(sql_query, name, tables, up) ==
    IF name = << >> THEN None
    ELSE ClosestColumn(sql_query,
             IF Len(name) >= 3 /\ name[2] = "." THEN name[3] ELSE name[1],
             AllColumns(UNION {_get_table_columns(t, tables, up) :
                                  t \in Range(_extract_tables(sql_query))},
                        tables, up))

(***************************************************************************)
(* State.                                                                  *)
(***************************************************************************)
VARIABLES
    schema,           \* the tables of the SQLite database
    db_up,            \* whether the database file can be opened
    learned_aliases,  \* SQLAgent.learned_aliases
    alias_file,       \* the content of table_aliases.json
    pc,               \* where process_query stands
    sql_query,        \* local sql_query of process_query
    query_source,     \* local query_source
    err,              \* the exception of the first execution
    results,          \* the number of rows fetched
    executions,       \* the texts handed to db.execute_query in this call
    ret,              \* what process_query returns
    requests,         \* the calls made so far
    built,            \* sql_query as steps 0 to 2 built it, before step 3
    aliases_before,   \* learned_aliases when the call began
    corrected,        \* the local "fixed" or "corrected" of the except handler
    corrections,      \* <<wrong, correct, built>> of every alias learned so far
    peer_aliases,     \* learned_aliases of a second SQLAgent on the same alias file
    overwritten,      \* the keys that a write has removed from the alias file
    llm_calls,        \* the functions that called ollama.chat in this call, in order
    unit,             \* a function applied on its own: its arguments and its value
    question,         \* user_input of this call of process_query
    connections,      \* the sqlite3 connections that execute_query has opened
    query_analytics,  \* the rows of query_analytics in learning.db
    query_patterns,   \* the rows of query_patterns in learning.db
    orchestrated,     \* the last call of AIOrchestrator.process_query
    message_count,    \* Chat.message_count of the chat
    messages,         \* the rows of Message of the chat
    http_response     \* the response of the last send_message

vars ==
    <<schema, db_up, learned_aliases, alias_file, pc, sql_query, query_source, err,
      results, executions, ret, requests, built, aliases_before, corrected, corrections,
      peer_aliases, overwritten, llm_calls, unit, question, connections, query_analytics,
      query_patterns, orchestrated, message_count, messages, http_response>>

\* The state outside the SQL agent: the connections of the database object,
\* the learning database, the orchestrator and the chat.
service ==
    <<connections, query_analytics, query_patterns, orchestrated, message_count, messages,
      http_response>>

\* No call of the orchestrator, no response of the route.
NoCall ==
    [query_type |-> "", pipeline |-> << >>, recorded |-> << >>, raised |-> FALSE,
     result |-> << >>, failed |-> {}]

NoResponse == [status |-> 0, success |-> FALSE, limit_reached |-> FALSE]

\* The service as it starts: no connection opened, learning.db as
\* init_learning_database creates it, a new chat.
ServiceInit ==
    /\ connections = << >>
    /\ query_analytics = << >>
    /\ query_patterns = << >>
    /\ orchestrated = NoCall
    /\ message_count = 0
    /\ messages = << >>
    /\ http_response = NoResponse

\* No function is applied on its own.
NoUnit == [name |-> "", args |-> << >>, value |-> << >>]

\* process_query has not returned.  In a result, results and columns are the
\* lengths of the two lists.
NoResult == [response |-> "", sql_query |-> None, results |-> 0, columns |-> 0,
             metadata |-> [pending |-> TRUE]]

\* FailureResult without the local sql_query.
FailureResultNoQuery(query, error) ==
    [response |-> "error", sql_query |-> None, results |-> 0, columns |-> 0,
     metadata |-> [error |-> error]]

\* The dictionary of the outer "except Exception as e".
FailureResult(query, error) ==
    [response |-> "error", sql_query |-> query, results |-> 0, columns |-> 0,
     metadata |-> [error |-> error]]

\* The dictionary of the normal return; columns counts cursor.description.
SuccessResult(response, query, rows, source) ==
    [response |-> response, sql_query |-> query, results |-> rows,
     columns |-> IF FetchesRows(query) THEN 1 ELSE 0,
     metadata |-> [query_source |-> source, row_count |-> rows]]

Init ==
    /\ ServiceInit
    /\ schema = Range(AllTables)
    /\ db_up = TRUE
    /\ learned_aliases = << >>
    /\ alias_file = << >>
    /\ pc = "idle"
    /\ sql_query = None
    /\ query_source = << >>
    /\ err = ExecOk
    /\ results = 0
    /\ executions = << >>
    /\ ret = NoResult
    /\ requests = 0
    /\ built = None
    /\ aliases_before = << >>
    /\ corrected = None
    /\ corrections = {}
    /\ peer_aliases = None
    /\ overwritten = {}
    /\ llm_calls = << >>
    /\ question = << >>
    /\ unit = NoUnit

(***************************************************************************)
(* process_query (sql_agent.py, lines 659-763), one action per stage.      *)
(***************************************************************************)
Available == _get_available_tables(schema, db_up)

\* llm_calls after the function has asked the language model.  Without an
\* answer, either _OLLAMA_OK is false and ollama.chat is not called, or the call
\* was made and raised.
Asked(function, answered) ==
    IF answered THEN {Append(llm_calls, function)}
    ELSE {llm_calls, Append(llm_calls, function)}

\* Fail without the outer except: the exception leaves process_query.
FailEscapes(query, error) ==
    /\ ret' = ret
    /\ pc' = "raised"

\* The outer "except Exception": the call returns the failure dictionary.
Fail(query, error) ==
    /\ ret' = FailureResult(query, error)
    /\ pc' = "done"

\* Steps 0 to 2: the SQL of the intent, of the predefined query or of the
\* language model.  generate_sql_query raises when the model cannot be reached.
ProcessQuery_Build ==
    /\ UNCHANGED service
    /\ pc = "idle"
    /\ requests < MaxRequests
    /\ requests' = requests + 1
    /\ question' \in UserInputs
    /\ \E today_year \in Years, today_month \in Months, answer \in LLMSqlTexts \cup {LLMDown} :
          LET i == _nl_intent(question', today_year, today_month)
              predefined_query == check_predefined_queries(question')
          IN  IF i.intent # NoMatch
              THEN /\ sql_query' = _build_sql_for_intent(i.intent, i.year, i.quarter)
                   /\ query_source' = <<"intent", i.intent>>
                   /\ pc' = "normalize"
                   /\ UNCHANGED <<ret, llm_calls>>
              ELSE IF predefined_query # NoMatch
                          /\ predefined_query \in DOMAIN PREDEFINED_QUERIES
              THEN /\ sql_query' = PREDEFINED_QUERIES[predefined_query]
                   /\ query_source' = <<"predefined">>
                   /\ pc' = "normalize"
                   /\ UNCHANGED <<ret, llm_calls>>
              ELSE IF answer = LLMDown
              THEN /\ Fail(None, [kind |-> "llm", name |-> << >>, dropped |-> {}])
                   /\ llm_calls' \in Asked("generate_sql_query", FALSE)
                   /\ UNCHANGED <<sql_query, query_source>>
              ELSE /\ sql_query' = generate_sql_query(answer)
                   /\ query_source' = <<"generated">>
                   /\ llm_calls' \in Asked("generate_sql_query", TRUE)
                   /\ pc' = "normalize"
                   /\ UNCHANGED ret
    /\ built' = sql_query'
    /\ aliases_before' = learned_aliases
    /\ UNCHANGED <<schema, db_up, learned_aliases, alias_file, err, results, executions,
                   corrected, corrections, overwritten, peer_aliases, unit>>

\* for wrong, correct in replace_map.items(): self._learn_alias(wrong, correct)
Learn(replace_map) ==
    /\ learned_aliases' = LearnItems(learned_aliases, replace_map, Len(replace_map))
    /\ alias_file' \in _save_aliases(alias_file, learned_aliases, replace_map)
    /\ corrections' = corrections \cup
           {<<replace_map[i][1], replace_map[i][2], built>> : i \in DOMAIN replace_map}
    /\ overwritten' = overwritten \cup (DictKeys(alias_file) \ DictKeys(alias_file'))

Validated(v) ==
    /\ sql_query' = v.sql
    /\ Learn(v.replace_map)

\* sql_query = self._validate_and_autocorrect_sql(text), with what it learns.
Validate(text) == Validated(_validate_and_autocorrect_sql(text, learned_aliases, Available))

\* Step 3 left out: the text goes to the executor as it was built.
ProcessQuery_NormalizeSkipped ==
    /\ UNCHANGED service
    /\ pc = "normalize"
    /\ pc' = "execute"
    /\ UNCHANGED <<schema, db_up, learned_aliases, alias_file, sql_query, query_source, err,
                   results, executions, ret, requests, built, aliases_before, corrected,
                   corrections, overwritten, peer_aliases, llm_calls, unit, question>>

\* Step 3: normalisation and validation before the execution.
ProcessQuery_Normalize ==
    /\ UNCHANGED service
    /\ pc = "normalize"
    /\ Validate(sql_query)
    /\ pc' = "execute"
    /\ UNCHANGED <<schema, db_up, query_source, err, results, executions, ret, requests, built,
                   aliases_before, corrected, peer_aliases, llm_calls, unit, question>>

\* Executed with a repair after every failed execution, the retry included.
ExecutedRepairingAgain(r, next) ==
    /\ executions' = Append(executions, sql_query)
    /\ IF r.kind = "ok"
       THEN /\ schema' = schema \ r.dropped
            /\ results' \in IF FetchesRows(sql_query) THEN 0..MaxRows ELSE {0}
            /\ pc' = next
            /\ UNCHANGED <<err, ret>>
       ELSE /\ UNCHANGED <<schema, results>>
            /\ err' = r /\ pc' = "repair" /\ UNCHANGED ret

\* What follows the outcome r of db.execute_query(sql_query): the rows of a
\* SELECT are any number up to MaxRows, and next is where the call goes on when
\* the execution succeeded.  The exception of the first execution is handled,
\* the exception of the retry reaches the outer except.
Executed(r, next) ==
    /\ executions' = Append(executions, sql_query)
    /\ IF r.kind = "ok"
       THEN /\ schema' = schema \ r.dropped
            /\ results' \in IF FetchesRows(sql_query) THEN 0..MaxRows ELSE {0}
            /\ pc' = next
            /\ UNCHANGED <<err, ret>>
       ELSE /\ UNCHANGED <<schema, results>>
            /\ IF executions = << >>
               THEN err' = r /\ pc' = "repair" /\ UNCHANGED ret
               ELSE Fail(sql_query, r) /\ UNCHANGED err

\* results = self.db.execute_query(sql_query)
Execute(next) == Executed(execute_query(sql_query, schema, db_up), next)

\* Step 4: the first execution.
ProcessQuery_Execute ==
    /\ UNCHANGED service
    /\ pc = "execute"
    /\ Execute("respond")
    /\ UNCHANGED <<db_up, learned_aliases, alias_file, sql_query, query_source, requests,
                   built, aliases_before, corrected, corrections, overwritten, peer_aliases,
                   llm_calls, unit, question>>

\* Without a corrected text, the query that failed is executed again.
CorrectedRetrying(text) ==
    /\ corrected' = text
    /\ IF Truthy(text)
       THEN Validate(text) /\ pc' = "retry" /\ UNCHANGED ret
       ELSE /\ pc' = "retry"
            /\ UNCHANGED <<ret, sql_query, learned_aliases, alias_file, corrections,
                           overwritten>>

\* if corrected: it is validated and retried; else the exception of the
\* execution is raised again.
Corrected(text) ==
    /\ corrected' = text
    /\ IF Truthy(text)
       THEN Validate(text) /\ pc' = "retry" /\ UNCHANGED ret
       ELSE /\ Fail(sql_query, err)
            /\ UNCHANGED <<sql_query, learned_aliases, alias_file, corrections, overwritten>>

\* corrected = self._fix_sql_query(sql_query, str(e))
RepairWithModel ==
    \E answer \in LLMFixTexts \cup {LLMDown} :
        /\ Corrected(_fix_sql_query(answer))
        /\ llm_calls' \in Asked("_fix_sql_query", answer # LLMDown)

\* "if m:" without a match of no such table:\s*([A-Za-z0-9_]+): the handler
\* does nothing, and step 5 reads results, which no execution has assigned.
UnboundResults == ExecError("local variable 'results' is not associated with a value", << >>)

\* The branches of the handler: target is what _map_table_alias gives for the
\* missing table, fixed what _try_fix_missing_column gives for the missing
\* column; a branch that finds nothing falls through to _fix_sql_query.
Repair(missing_table, target, fixed) ==
    IF err.kind = "no such table" /\ ~IsWord(missing_table)
    THEN /\ Fail(sql_query, UnboundResults)
         /\ UNCHANGED <<sql_query, learned_aliases, alias_file, corrected, corrections,
                        overwritten, llm_calls>>
    ELSE IF err.kind = "no such table" /\ target # NoMatch
    THEN /\ sql_query' =
                _replace_identifiers(sql_query, WordMapping(<< <<missing_table, target>> >>))
         /\ Learn(<< <<missing_table, target>> >>)
         /\ pc' = "retry"
         /\ UNCHANGED <<ret, corrected, llm_calls>>
    ELSE IF err.kind = "no such column" /\ Truthy(fixed)
    THEN /\ Validate(fixed) /\ corrected' = fixed /\ pc' = "retry"
         /\ UNCHANGED <<ret, llm_calls>>
    ELSE IF err.kind = "only execute one statement"
    THEN /\ sql_query' = _ensure_single_statement(sql_query)
         /\ pc' = "retry"
         /\ UNCHANGED <<learned_aliases, alias_file, ret, corrected, corrections, overwritten,
                        llm_calls>>
    ELSE RepairWithModel

\* The "except Exception as e" of the first execution, up to its retry.
ProcessQuery_Repair ==
    /\ UNCHANGED service
    /\ pc = "repair"
    /\ Repair(IF err.kind = "no such table" THEN Lower(err.name[1]) ELSE "",
              IF err.kind = "no such table" /\ IsWord(err.name[1])
              THEN _map_table_alias(Lower(err.name[1]), learned_aliases, Available)
              ELSE NoMatch,
              IF err.kind = "no such column"
              THEN _try_fix_missing_column(sql_query, err.name, schema, db_up)
              ELSE None)
    /\ UNCHANGED <<schema, db_up, query_source, err, results, executions, requests, built,
                   aliases_before, peer_aliases, unit, question>>

\* The one further execution; its exception reaches the outer except.
ProcessQuery_Retry ==
    /\ UNCHANGED service
    /\ pc = "retry"
    /\ Execute("respond")
    /\ UNCHANGED <<db_up, learned_aliases, alias_file, sql_query, query_source, requests,
                   built, aliases_before, corrected, corrections, overwritten, peer_aliases,
                   llm_calls, unit, question>>

\* Step 5: _generate_response_text and the normal return.  The language model
\* is asked only when there are rows, and its failure gives the fallback text.
ProcessQuery_Respond ==
    /\ UNCHANGED service
    /\ pc = "respond"
    /\ \E response \in IF results = 0 THEN {"no data"} ELSE {"model", "fallback"} :
          /\ ret' = SuccessResult(response, sql_query, results, query_source)
          /\ llm_calls' \in IF response = "no data" THEN {llm_calls}
                             ELSE Asked("_generate_response_text", response = "model")
    /\ pc' = "done"
    /\ UNCHANGED <<schema, db_up, learned_aliases, alias_file, sql_query, query_source, err,
                   results, executions, requests, built, aliases_before, corrected,
                   corrections, overwritten, peer_aliases, unit, question>>

\* The caller takes the result; the locals of the call are gone.
ProcessQuery_Return ==
    /\ UNCHANGED service
    /\ pc = "done"
    /\ pc' = "idle"
    /\ sql_query' = None
    /\ query_source' = << >>
    /\ err' = ExecOk
    /\ results' = 0
    /\ executions' = << >>
    /\ ret' = NoResult
    /\ built' = None
    /\ aliases_before' = << >>
    /\ corrected' = None
    /\ llm_calls' = << >>
    /\ question' = << >>
    /\ UNCHANGED <<schema, db_up, learned_aliases, alias_file, requests, corrections,
                   overwritten, peer_aliases, unit>>

\* The database file becomes unreadable (locked, removed) or readable again.
DbToggle ==
    /\ UNCHANGED service
    /\ db_up' = ~db_up
    /\ UNCHANGED <<schema, learned_aliases, alias_file, pc, sql_query, query_source, err,
                   results, executions, ret, requests, built, aliases_before, corrected,
                   corrections, overwritten, peer_aliases, llm_calls, unit, question>>

Next ==
    \/ ProcessQuery_Build
    \/ ProcessQuery_Normalize
    \/ ProcessQuery_Execute
    \/ ProcessQuery_Repair
    \/ ProcessQuery_Retry
    \/ ProcessQuery_Respond
    \/ ProcessQuery_Return
    \/ DbToggle

Spec == Init /\ [][Next]_vars

(***************************************************************************)
(* _validate_and_autocorrect_sql and the synonym pass of                   *)
(* _normalize_join_keys as functions of a text: the text, the tables and   *)
(* the learned aliases are drawn at the start, and each step applies the   *)
(* function to the text it has.                                            *)
(***************************************************************************)
Quarters == {1, 2, 3, 4}

IntentTexts ==
    {_build_sql_for_intent(i, y, q) : i \in Intents, y \in Years, q \in Quarters}

PredefinedTexts == {PREDEFINED_QUERIES[k] : k \in DOMAIN PREDEFINED_QUERIES}

\* A column name on its own, synonym or canonical.
ColumnTexts == {<<c>> : c \in SynonymKeys \cup SynonymValues}

NormalizeTexts ==
    IntentTexts \cup PredefinedTexts \cup LLMSqlTexts \cup LLMFixTexts \cup ColumnTexts

\* The tables that a DROP TABLE of the vocabulary can remove.
NormalizeSchemas ==
    {Range(AllTables) \ dropped : dropped \in SUBSET {"dw_fact_billing", "dw_fact_ticket"}}

NormalizeAliases == {<< >>, << <<"sales_data", "dw_fact_billing">> >>}

InitNormalize ==
    /\ ServiceInit
    /\ schema \in NormalizeSchemas
    /\ db_up = TRUE
    /\ learned_aliases \in NormalizeAliases
    /\ alias_file = learned_aliases
    /\ pc = "text"
    /\ sql_query \in NormalizeTexts
    /\ query_source = << >>
    /\ err = ExecOk
    /\ results = 0
    /\ executions = << >>
    /\ ret = NoResult
    /\ requests = 0
    /\ built = sql_query
    /\ aliases_before = learned_aliases
    /\ corrected = None
    /\ corrections = {}
    /\ peer_aliases = None
    /\ overwritten = {}
    /\ llm_calls = << >>
    /\ question = << >>
    /\ unit = NoUnit

\* sql = self._validate_and_autocorrect_sql(sql), once and once again.
NormalizeText ==
    /\ UNCHANGED service
    /\ pc \in {"text", "normalized"}
    /\ Validate(sql_query)
    /\ pc' = IF pc = "text" THEN "normalized" ELSE "renormalized"
    /\ UNCHANGED <<schema, db_up, query_source, err, results, executions, ret, requests, built,
                   aliases_before, corrected, peer_aliases, llm_calls, unit, question>>

\* sql = self._replace_identifiers(sql, _COLUMN_SYNONYMS), once and once again.
ApplySynonyms ==
    /\ UNCHANGED service
    /\ pc \in {"text", "mapped"}
    /\ sql_query' = _replace_identifiers(sql_query, SynonymMapping)
    /\ pc' = IF pc = "text" THEN "mapped" ELSE "remapped"
    /\ UNCHANGED <<schema, db_up, learned_aliases, alias_file, query_source, err, results,
                   executions, ret, requests, built, aliases_before, corrected, corrections,
                   overwritten, peer_aliases, llm_calls, unit, question>>

NextNormalize == NormalizeText \/ ApplySynonyms

SpecNormalize == InitNormalize /\ [][NextNormalize]_vars

(***************************************************************************)
(* Two agents on one alias file (sql_agent.py, lines 62-69 and 138-160):   *)
(* each reads the file when it is constructed, and writes its whole        *)
(* dictionary after each entry it learns.                                  *)
(***************************************************************************)
\* _load_aliases: the dictionary of the file, or {} when it cannot be read.
_load_aliases(file, readable) == IF readable THEN file ELSE << >>

InitShared ==
    /\ ServiceInit
    /\ schema \in NormalizeSchemas
    /\ db_up = TRUE
    /\ alias_file \in NormalizeAliases
    /\ \E readable \in BOOLEAN : learned_aliases = _load_aliases(alias_file, readable)
    /\ pc = "shared"
    /\ sql_query = None
    /\ query_source = << >>
    /\ err = ExecOk
    /\ results = 0
    /\ executions = << >>
    /\ ret = NoResult
    /\ requests = 0
    /\ built = None
    /\ aliases_before = << >>
    /\ corrected = None
    /\ corrections = {}
    /\ peer_aliases = None
    /\ overwritten = {}
    /\ llm_calls = << >>
    /\ question = << >>
    /\ unit = NoUnit

\* The texts of the language model that name a table the schema has not.
LearnTexts == {text \in LLMSqlTexts : Range(text) \cap {"sales_data", "zzz", "DW_DIM_TICKET"} # {}}

\* SQLAgent.__init__ of the second agent.
PeerConstruct ==
    /\ UNCHANGED service
    /\ pc = "shared" /\ peer_aliases = None
    /\ \E readable \in BOOLEAN : peer_aliases' = _load_aliases(alias_file, readable)
    /\ UNCHANGED <<schema, db_up, learned_aliases, alias_file, pc, sql_query, query_source,
                   err, results, executions, ret, requests, built, aliases_before, corrected,
                   corrections, overwritten, llm_calls, unit, question>>

\* The first agent normalises a text and learns what it maps.
AgentLearns ==
    /\ UNCHANGED service
    /\ pc = "shared"
    /\ \E text \in LearnTexts :
          Learn(_validate_and_autocorrect_sql(text, learned_aliases, Available).replace_map)
    /\ UNCHANGED <<schema, db_up, pc, sql_query, query_source, err, results, executions, ret,
                   requests, built, aliases_before, corrected, peer_aliases, llm_calls, unit,
                   question>>

\* The second agent learns replace_map: _learn_alias and _save_aliases on its
\* own dictionary.
PeerLearn(replace_map) ==
    /\ peer_aliases' = LearnItems(peer_aliases, replace_map, Len(replace_map))
    /\ alias_file' \in _save_aliases(alias_file, peer_aliases, replace_map)
    /\ overwritten' = overwritten \cup (DictKeys(alias_file) \ DictKeys(alias_file'))

\* The second agent normalises a text and learns what it maps.
PeerLearns ==
    /\ UNCHANGED service
    /\ pc = "shared" /\ peer_aliases # None
    /\ \E text \in LearnTexts :
          PeerLearn(_validate_and_autocorrect_sql(text, peer_aliases, Available).replace_map)
    /\ UNCHANGED <<schema, db_up, learned_aliases, pc, sql_query, query_source, err, results,
                   executions, ret, requests, built, aliases_before, corrected, corrections,
                   llm_calls, unit, question>>

NextShared == PeerConstruct \/ AgentLearns \/ PeerLearns

SpecShared == InitShared /\ [][NextShared]_vars

(***************************************************************************)
(* _last_completed_quarter (sql_agent.py, lines 474-480) as a function of  *)
(* the date that datetime.date.today() returns.                            *)
(***************************************************************************)
\* The dates <<year, month, day>> that today() may return.
Todays == (2020..2026) \X (1..12) \X {1, 15, 28}

InitQuarter ==
    /\ ServiceInit
    /\ schema = Range(AllTables)
    /\ db_up = TRUE
    /\ learned_aliases = << >>
    /\ alias_file = << >>
    /\ pc = "unit"
    /\ sql_query = None
    /\ query_source = << >>
    /\ err = ExecOk
    /\ results = 0
    /\ executions = << >>
    /\ ret = NoResult
    /\ requests = 0
    /\ built = None
    /\ aliases_before = << >>
    /\ corrected = None
    /\ corrections = {}
    /\ peer_aliases = None
    /\ overwritten = {}
    /\ llm_calls = << >>
    /\ question = << >>
    /\ \E today \in Todays :
          unit = [name |-> "_last_completed_quarter", args |-> today, value |-> << >>]

\* y, q = self._last_completed_quarter()
LastCompletedQuarter ==
    /\ UNCHANGED service
    /\ unit.name = "_last_completed_quarter" /\ unit.value = << >>
    /\ unit' = [unit EXCEPT !.value = _last_completed_quarter(unit.args[1], unit.args[2])]
    /\ UNCHANGED <<schema, db_up, learned_aliases, alias_file, pc, sql_query, query_source,
                   err, results, executions, ret, requests, built, aliases_before, corrected,
                   corrections, peer_aliases, overwritten, llm_calls, question>>

NextQuarter == LastCompletedQuarter

SpecQuarter == InitQuarter /\ [][NextQuarter]_vars

(***************************************************************************)
(* AIOrchestrator.classify_query (orchestrator.py, lines 17-63) as a       *)
(* function of the question, of what LearningSystem.improve_classification *)
(* returns for it, and of the tables of the database.  A question is a     *)
(* sequence of words; "keyword in user_lower" is the test of a substring.  *)
(***************************************************************************)
MaxWords == 2

\* The words of the questions.
ClassifyWords ==
    {"quantos", "clientes", "receita", "explique", "como", "por", "que", "ola", "DW_DIM_TICKET"}

\* The entries of sql_keywords that are substrings of a word.
SqlKeywordsIn ==
    ("quantos" :> {"quantos", "quanto"}) @@ ("clientes" :> {"clientes"})
        @@ ("receita" :> {"receita"})

\* The entries of rag_keywords that are substrings of a word.
RagKeywordsIn == ("explique" :> {"explique"}) @@ ("como" :> {"como"})

\* sum(1 for keyword in sql_keywords if keyword in user_lower)
sql_score(user_lower) ==
    Cardinality(UNION {SqlKeywordsIn[w] : w \in Range(user_lower) \cap DOMAIN SqlKeywordsIn})

\* sum(1 for keyword in rag_keywords if keyword in user_lower); "por que" is
\* the one keyword of two words.
rag_score(user_lower) ==
    Cardinality(UNION {RagKeywordsIn[w] : w \in Range(user_lower) \cap DOMAIN RagKeywordsIn}
                    \cup IF HasPair(user_lower, {"por"}, {"que"}) THEN {"por que"} ELSE {})

\* sum(1 for table in tables if table.lower() in user_lower)
table_mentions(user_lower, tables) ==
    Cardinality({table \in tables : Lower(table) \in Range(user_lower)})

\* The keyword fallback, orchestrator.py lines 48-63.
KeywordClass(user_lower, tables) ==
    IF table_mentions(user_lower, tables) > 0 \/ sql_score(user_lower) > rag_score(user_lower)
    THEN "sql"
    ELSE IF rag_score(user_lower) > 0 THEN "rag" ELSE "general"

\* learned_classification is "" for None.  get_all_tables raises when the
\* database cannot be read.
classify_query(user_input, learned_classification, tables, up) ==
    IF learned_classification # "" THEN learned_classification
    ELSE IF ~up THEN "raised"
    ELSE KeywordClass(AsSeq([i \in DOMAIN user_input |-> Lower(user_input[i])]), tables)

\* The questions of at most MaxWords words.
ClassifyInputs == UNION {[1..n -> ClassifyWords] : n \in 0..MaxWords}

InitClassify ==
    /\ ServiceInit
    /\ schema \in NormalizeSchemas
    /\ db_up \in BOOLEAN
    /\ learned_aliases = << >>
    /\ alias_file = << >>
    /\ pc = "unit"
    /\ sql_query = None
    /\ query_source = << >>
    /\ err = ExecOk
    /\ results = 0
    /\ executions = << >>
    /\ ret = NoResult
    /\ requests = 0
    /\ built = None
    /\ aliases_before = << >>
    /\ corrected = None
    /\ corrections = {}
    /\ peer_aliases = None
    /\ overwritten = {}
    /\ llm_calls = << >>
    /\ question \in ClassifyInputs
    /\ \E learned_classification \in {"", "sql", "rag", "general"} :
          unit = [name |-> "classify_query", args |-> <<learned_classification>>,
                  value |-> << >>]

\* query_type = self.classify_query(user_input)
ClassifyQuery ==
    /\ UNCHANGED service
    /\ unit.name = "classify_query" /\ unit.value = << >>
    /\ unit' = [unit EXCEPT !.value = <<classify_query(question, unit.args[1], schema, db_up)>>]
    /\ UNCHANGED <<schema, db_up, learned_aliases, alias_file, pc, sql_query, query_source, err,
                   results, executions, ret, requests, built, aliases_before, corrected,
                   corrections, peer_aliases, overwritten, llm_calls, question>>

NextClassify == ClassifyQuery

SpecClassify == InitClassify /\ [][NextClassify]_vars

(***************************************************************************)
(* A function of the program applied on its own: the agent as constructed, *)
(* the question q and the call u.                                          *)
(***************************************************************************)
InitApplied(q, u) ==
    /\ ServiceInit
    /\ schema = Range(AllTables)
    /\ db_up = TRUE
    /\ learned_aliases = << >>
    /\ alias_file = << >>
    /\ pc = "unit"
    /\ sql_query = None
    /\ query_source = << >>
    /\ err = ExecOk
    /\ results = 0
    /\ executions = << >>
    /\ ret = NoResult
    /\ requests = 0
    /\ built = None
    /\ aliases_before = << >>
    /\ corrected = None
    /\ corrections = {}
    /\ peer_aliases = None
    /\ overwritten = {}
    /\ llm_calls = << >>
    /\ question = q
    /\ unit = u

(***************************************************************************)
(* Step 0 of process_query (sql_agent.py, lines 665-670) as a function of  *)
(* the question and of today's date: _nl_intent, then                      *)
(* _build_sql_for_intent on what it returned.                              *)
(***************************************************************************)
MaxIntentWords == 3

\* The words of the questions: those of the intents, and words of SQL.
IntentWords ==
    {"quantos", "quais", "clientes", "produtos", "top", "receita", "ultimo", "trimestre",
     "este", "ano", "2025", "DROP", "dw_dim_client", ";"}

IntentInputs == UNION {[1..n -> IntentWords] : n \in 0..MaxIntentWords}

\* The years of today's date.
TodayYears == Years \cup {y + 1 : y \in Years}

InitIntent ==
    \E q \in IntentInputs, today_year \in TodayYears, today_month \in Months :
        InitApplied(q, [name |-> "_nl_intent", args |-> <<today_year, today_month>>,
                        value |-> << >>])

\* intent, params = self._nl_intent(user_input)
NlIntent ==
    /\ UNCHANGED service
    /\ unit.name = "_nl_intent" /\ unit.value = << >>
    /\ unit' = [unit EXCEPT !.value = <<_nl_intent(question, unit.args[1], unit.args[2])>>]
    /\ UNCHANGED <<schema, db_up, learned_aliases, alias_file, pc, sql_query, query_source,
                   err, results, executions, ret, requests, built, aliases_before, corrected,
                   corrections, peer_aliases, overwritten, llm_calls, question>>

\* if intent: sql_query = self._build_sql_for_intent(intent, params)
BuildSqlForIntent ==
    /\ UNCHANGED service
    /\ unit.name = "_nl_intent" /\ unit.value # << >> /\ pc = "unit"
    /\ unit.value[1].intent # NoMatch
    /\ sql_query' = _build_sql_for_intent(unit.value[1].intent, unit.value[1].year,
                                          unit.value[1].quarter)
    /\ pc' = "built"
    /\ UNCHANGED <<schema, db_up, learned_aliases, alias_file, query_source, err, results,
                   executions, ret, requests, built, aliases_before, corrected, corrections,
                   peer_aliases, overwritten, llm_calls, unit, question>>

NextIntent == NlIntent \/ BuildSqlForIntent

SpecIntent == InitIntent /\ [][NextIntent]_vars

(***************************************************************************)
(* _fix_alias_column_spacing (sql_agent.py, lines 353-378) as a function   *)
(* of its text.                                                            *)
(***************************************************************************)
\* Texts with and without an alias, with a word before a column.
SpacingTexts ==
    NormalizeTexts \cup
    {<<"SELECT">> \o head \o <<"FROM", "dw_fact_billing">> \o tail :
        head \in {<<"SUM", "(", "fb", "amount", ")">>, <<"SUM", "(", "fb", "billing_date", ")">>,
                  <<"SUM", "(", "fb", "status", ")">>, <<"SUM", "(", "x", "amount", ")">>,
                  <<"SUM", "(", "amount", ")">>, <<"fb", "amount">>},
        tail \in {<<"fb">>, <<"AS", "fb">>, << >>, <<"HAVING", "amount", "=", "0">>,
                  <<"fb", "WHERE", "fb", ".", "amount", "=", "1">>,
                  <<"WHERE", "amount", "=", "1">>}}

InitSpacing ==
    \E text \in SpacingTexts :
        InitApplied(<< >>, [name |-> "_fix_alias_column_spacing", args |-> text,
                            value |-> << >>])

\* fixed = self._fix_alias_column_spacing(fixed)
FixAliasColumnSpacing ==
    /\ UNCHANGED service
    /\ unit.name = "_fix_alias_column_spacing" /\ pc = "unit"
    /\ unit' = [unit EXCEPT !.value = _fix_alias_column_spacing(unit.args)]
    /\ pc' = "applied"
    /\ UNCHANGED <<schema, db_up, learned_aliases, alias_file, sql_query, query_source, err,
                   results, executions, ret, requests, built, aliases_before, corrected,
                   corrections, peer_aliases, overwritten, llm_calls, question>>

NextSpacing == FixAliasColumnSpacing

SpecSpacing == InitSpacing /\ [][NextSpacing]_vars

(***************************************************************************)
(* AnalyticalCompanyDB.execute_query and its connection (database_query.py,*)
(* lines 438-443 and 467-478).  Each call takes a connection from          *)
(* _connect.  "with conn" commits or rolls back when the block is left and *)
(* does not close the connection, and execute_query never calls            *)
(* conn.close(): the connection is closed when the interpreter frees the   *)
(* object, which the garbage collector does at a time of its own.          *)
(***************************************************************************)
MaxCalls == 3

\* The statements handed to execute_query.
ConnectTexts ==
    { << "SELECT", "COUNT", "(", "*", ")", "FROM", "dw_dim_client" >>,
      << "SELECT", "*", "FROM", "zzz" >>,
      << "SELECT", "name", "FROM", "sqlite_master" >>,
      << "DROP", "TABLE", "dw_fact_billing" >> }

\* conn = sqlite3.connect(self.db_path), for the call with this number.
_connect(call) == [calls |-> {call}, open |-> TRUE]

InitConnect ==
    InitApplied(<< >>, [name |-> "execute_query", args |-> << >>, value |-> << >>])

\* One call of execute_query, returning or raising.  When the database file
\* cannot be opened, sqlite3.connect raises and there is no connection, or it
\* returns and the first PRAGMA of apply_pragmas raises.
ExecuteQuery ==
    /\ unit.name = "execute_query"
    /\ Len(executions) < MaxCalls
    /\ \E query \in ConnectTexts :
          LET r == execute_query(query, schema, db_up)
          IN /\ executions' = Append(executions, query)
             /\ schema' = schema \ r.dropped
             /\ err' = r
             /\ unit' = [unit EXCEPT !.args = query, !.value = <<r.kind>>]
    /\ connections' \in
          {Append(connections, _connect(Len(executions) + 1))}
              \cup IF db_up THEN {} ELSE {connections}
    /\ UNCHANGED <<db_up, learned_aliases, alias_file, pc, sql_query, query_source, results,
                   ret, requests, built, aliases_before, corrected, corrections,
                   peer_aliases, overwritten, llm_calls, question, query_analytics,
                   query_patterns, orchestrated, message_count, messages, http_response>>

\* The garbage collector frees the connections that no call refers to any
\* more, and freeing a connection closes it.
CollectConnections ==
    /\ unit.name = "execute_query"
    /\ \E i \in DOMAIN connections : connections[i].open
    /\ connections' = [i \in DOMAIN connections |-> [connections[i] EXCEPT !.open = FALSE]]
    /\ UNCHANGED <<schema, db_up, learned_aliases, alias_file, pc, sql_query, query_source,
                   err, results, executions, ret, requests, built, aliases_before, corrected,
                   corrections, peer_aliases, overwritten, llm_calls, unit, question,
                   query_analytics, query_patterns, orchestrated, message_count, messages,
                   http_response>>

NextConnect == ExecuteQuery \/ CollectConnections \/ DbToggle

SpecConnect == InitConnect /\ [][NextConnect]_vars

(***************************************************************************)
(* AIOrchestrator.process_query (orchestrator.py, lines 65-135) with its   *)
(* collaborators: the learned classifier and the table listing of          *)
(* classify_query, the pipeline of the query type, and                     *)
(* LearningSystem.analyze_query_patterns (learning_system.py, lines        *)
(* 68-115), which records every call.  What a collaborator does in a call  *)
(* (answers, fails) is drawn when the call is made.                        *)
(***************************************************************************)
OrchestratorQuestions == { << "quantos", "clientes" >>, << "explique" >>, << "ola" >> }

\* The keywords of _extract_query_patterns among the words of the questions.
PatternKeywords == {"receita", "clientes", "quantos", "como", "explique"}

\* _extract_query_patterns: the keywords in the question, and its size (a
\* question of at most 3 words is a short_query).
_extract_query_patterns(query) ==
    ({Lower(query[i]) : i \in DOMAIN query} \cap PatternKeywords) \cup {"short_query"}

\* result.get(key, default)
Get(result, key, default) == IF key \in DOMAIN result THEN result[key] ELSE default

\* What the pipeline of the query type returns: SQLAgent.process_query
\* (sql_agent.py, lines 744-763), RAGAgent.process_query (rag_agent.py, lines
\* 151-165) and _generate_general_response (orchestrator.py, lines 165-179).
\* None of them raises, and none of the dictionaries has a key 'success' or
\* 'error'.
PipelineResult(query_type, answered) ==
    CASE query_type = "sql" ->
            IF answered
            THEN SuccessResult("model", _build_sql_for_intent("count_clients", 2025, 1), 1,
                               <<"intent", "count_clients">>)
            ELSE FailureResult(None, ExecError("other", << >>))
      [] query_type = "rag" ->
            IF answered THEN [response |-> "model", metadata |-> [relevant_docs |-> 0]]
            ELSE [response |-> "error", metadata |-> [error |-> "other"]]
      [] OTHER ->
            IF answered THEN [response |-> "model", metadata |-> [type |-> "general_chat"]]
            ELSE [response |-> "no model", metadata |-> [error |-> "other"]]

\* The two branches of learning_system.py lines 90-112 for one pattern: the
\* success rate of a row is successes / usage_count.
PatternUsed(rows, key, success) ==
    IF key \in DOMAIN rows
    THEN [usage_count |-> rows[key].usage_count + 1,
          successes |-> rows[key].successes + IF success THEN 1 ELSE 0]
    ELSE [usage_count |-> 1, successes |-> IF success THEN 1 ELSE 0]

\* analyze_query_patterns on the learning database sink = [analytics,
\* patterns].  It has no handler of its own: when learning.db cannot be
\* written it raises, before the row of query_analytics ("no analytics") or
\* after its commit and before the commit of the patterns ("no patterns").
analyze_query_patterns(sink, outcome, query, query_type, success, error) ==
    LET row == [query_type |-> query_type, success |-> success, error |-> error]
        keys == {<<pattern, query_type>> : pattern \in _extract_query_patterns(query)}
    IN CASE outcome = "no analytics" ->
                [analytics |-> sink.analytics, patterns |-> sink.patterns, raised |-> TRUE]
         [] outcome = "no patterns" ->
                [analytics |-> Append(sink.analytics, row), patterns |-> sink.patterns,
                 raised |-> TRUE]
         [] OTHER ->
                [analytics |-> Append(sink.analytics, row),
                 patterns |-> [key \in DOMAIN sink.patterns \cup keys |->
                                  IF key \in keys THEN PatternUsed(sink.patterns, key, success)
                                  ELSE sink.patterns[key]],
                 raised |-> FALSE]

SinkOutcomes == {"ok", "no analytics", "no patterns"}

\* The dictionary of lines 107-114.
OrchestratorResult(result, query_type) ==
    [response |-> Get(result, "response", "no response"), query_type |-> query_type,
     sql_query |-> Get(result, "sql_query", None), success |-> TRUE,
     metadata |-> Get(result, "metadata", << >>)]

\* The dictionary of lines 128-135.
OrchestratorError ==
    [response |-> "error", query_type |-> "error", sql_query |-> None, success |-> FALSE,
     error |-> "str(e)"]

InitOrchestrator ==
    InitApplied(<< >>, [name |-> "AIOrchestrator.process_query", args |-> << >>,
                        value |-> << >>])

\* One call of AIOrchestrator.process_query.  learned is what
\* improve_classification returns ("" for None) or "raises"; answered says
\* whether the pipeline succeeded; first and second are the outcomes of the
\* calls of analyze_query_patterns in the try block and in the handler.
OrchestratorProcessQuery ==
    /\ unit.name = "AIOrchestrator.process_query"
    /\ requests < MaxRequests
    /\ \E user_input \in OrchestratorQuestions,
          learned \in {"", "sql", "rag", "general", "raises"},
          answered \in BOOLEAN, first \in SinkOutcomes, second \in SinkOutcomes :
          LET query_type == IF learned = "raises" THEN "raised"
                            ELSE classify_query(user_input, learned, schema, db_up)
              classified == query_type # "raised"
              result == PipelineResult(query_type, answered)
              sink == [analytics |-> query_analytics, patterns |-> query_patterns]
              tried == analyze_query_patterns(sink, first, user_input, query_type,
                                              Get(result, "success", TRUE),
                                              "error" \in DOMAIN result)
              handled == ~classified \/ tried.raised
              handler == analyze_query_patterns(IF classified THEN tried ELSE sink, second,
                                                user_input,
                                                IF classified THEN query_type ELSE "error",
                                                FALSE, TRUE)
              final == IF handled THEN handler ELSE tried
          IN /\ question' = user_input
             /\ query_analytics' = final.analytics
             /\ query_patterns' = final.patterns
             /\ orchestrated' =
                   [query_type |-> query_type,
                    pipeline |-> IF classified THEN <<result>> ELSE << >>,
                    recorded |-> SubSeq(final.analytics, Len(query_analytics) + 1,
                                        Len(final.analytics)),
                    raised |-> handled /\ handler.raised,
                    result |-> IF ~handled THEN <<OrchestratorResult(result, query_type)>>
                               ELSE IF handler.raised THEN << >>
                               ELSE <<OrchestratorError>>,
                    failed |-> (IF learned = "raises" THEN {"classifier"} ELSE {})
                               \cup (IF learned = "" /\ ~db_up THEN {"tables"} ELSE {})
                               \cup (IF classified /\ ~answered THEN {"pipeline"} ELSE {})
                               \cup (IF (classified /\ tried.raised)
                                        \/ (handled /\ handler.raised)
                                     THEN {"sink"} ELSE {})]
    /\ requests' = requests + 1
    /\ UNCHANGED <<schema, db_up, learned_aliases, alias_file, pc, sql_query, query_source,
                   err, results, executions, ret, built, aliases_before, corrected,
                   corrections, peer_aliases, overwritten, llm_calls, unit, connections,
                   message_count, messages, http_response>>

NextOrchestrator == OrchestratorProcessQuery \/ DbToggle

SpecOrchestrator == InitOrchestrator /\ [][NextOrchestrator]_vars

(***************************************************************************)
(* send_message (routes/chat.py, lines 105-199) on one chat, one call      *)
(* after the other.  The orchestrator returns a dictionary or raises; the  *)
(* session of the database commits, or a statement of it raises and the    *)
(* handler of line 197 rolls back.                                         *)
(***************************************************************************)
\* The limit of line 126.
MessageLimit == 20

\* The contents of the request body.
Contents == {"", " ", "quantos clientes"}

\* (data.get("content") or "").strip()
Strip(content) == IF content = " " THEN "" ELSE content

\* if (chat.message_count or 0) > 20
LimitReachedLate(count) == count > MessageLimit

\* if (chat.message_count or 0) >= 20
LimitReached(count) == count >= MessageLimit

\* What ai_orchestrator.process_query does: it returns a dictionary, whose
\* response is never empty (orchestrator.py, lines 108 and 129), or it raises.
OrchestratorOutcomes == {"response", "raises"}

\* ai_response: the response of the result, or the apology of lines 156-160.
ai_response(outcome) == IF outcome = "response" THEN "response" ELSE "apology"

Rejected(limit_reached) == [status |-> 400, success |-> FALSE, limit_reached |-> limit_reached]

InitChat == InitApplied(<< >>, [name |-> "send_message", args |-> << >>, value |-> << >>])

\* One call of send_message.  unit keeps the content and the outcome of the
\* orchestrator of the call, and message_count and the number of messages as
\* they were when it began.
SendMessage ==
    /\ unit.name = "send_message"
    /\ \E content \in Contents, outcome \in OrchestratorOutcomes, committed \in BOOLEAN :
          /\ unit' = [unit EXCEPT !.args = <<content, outcome>>,
                                  !.value = <<message_count, Len(messages)>>]
          /\ IF Strip(content) = ""
             THEN /\ http_response' = Rejected(FALSE)
                  /\ UNCHANGED <<message_count, messages>>
             ELSE IF LimitReached(message_count)
             THEN /\ http_response' = Rejected(TRUE)
                  /\ UNCHANGED <<message_count, messages>>
             ELSE IF ~committed
             THEN /\ http_response' =
                        [status |-> 500, success |-> FALSE, limit_reached |-> FALSE]
                  /\ UNCHANGED <<message_count, messages>>
             ELSE /\ messages' =
                        messages \o <<[role |-> "user", content |-> Strip(content)],
                                      [role |-> "assistant", content |-> ai_response(outcome)]>>
                  /\ message_count' = (message_count + 1) + 1
                  /\ http_response' =
                        [status |-> 200, success |-> TRUE, limit_reached |-> FALSE]
    /\ UNCHANGED <<schema, db_up, learned_aliases, alias_file, pc, sql_query, query_source,
                   err, results, executions, ret, requests, built, aliases_before, corrected,
                   corrections, peer_aliases, overwritten, llm_calls, question, connections,
                   query_analytics, query_patterns, orchestrated>>

NextChat == SendMessage

SpecChat == InitChat /\ [][NextChat]_vars

\* Every table and column that the text refers to exists: SQLite runs it.
SchemaValid(text) == FetchesRows(text) /\ execute_query(text, schema, TRUE).kind = "ok"

(***************************************************************************)
(* Properties.                                                             *)
(***************************************************************************)
IsFailure(result) == "error" \in DOMAIN result.metadata

ResultFields == {"response", "sql_query", "results", "columns", "metadata"}

\* The stages of one call in the order of the code.
Stages == <<"idle", "normalize", "execute", "repair", "retry", "respond", "done">>

StageIndex(stage) == CHOOSE i \in DOMAIN Stages : Stages[i] = stage

\* C1: one call of process_query executes the query at most twice: a failed
\* first execution is followed by at most one more, a failed retry ends the call
\* with a failure result, and the call ends because it never goes back to a
\* stage it has left (each stage being one returning call of a collaborator).
C1_AtMostOneRetry ==
    /\ [](Len(executions) <= 2)
    /\ [][pc = "retry" /\ pc' # "retry" =>
            /\ Len(executions) = 1 /\ Len(executions') = 2
            /\ \/ pc' = "respond" /\ execute_query(sql_query, schema, db_up).kind = "ok"
               \/ /\ pc' = "done" /\ IsFailure(ret')
                  /\ execute_query(sql_query, schema, db_up).kind # "ok"]_vars
    /\ [][IF pc' = pc THEN UNCHANGED <<executions, sql_query, ret>>
          ELSE \/ StageIndex(pc') > StageIndex(pc)
               \/ pc = "done" /\ pc' = "idle"]_vars

\* A call that executed twice and failed.
C1_Witness == pc = "done" /\ Len(executions) = 2 /\ IsFailure(ret)

\* C2: no exception leaves process_query: every stage ends in another stage or
\* in a result with the five fields of a success, and a stage that fails
\* (generation, repair, retry) ends in a result whose metadata hold the error.
C2_NoExceptionEscapes ==
    /\ [](pc \in {"idle", "normalize", "execute", "repair", "retry", "respond", "done"})
    /\ [](pc = "done" => DOMAIN ret = ResultFields)
    /\ [][pc # "done" /\ pc' = "done" =>
            IF pc = "respond" THEN ~IsFailure(ret')
            ELSE IsFailure(ret') /\ ret'.metadata.error.kind # "ok"]_vars

\* A call that failed because the language model could not be reached.
C2_Witness == pc = "done" /\ IsFailure(ret) /\ ret.metadata.error.kind = "llm"

\* C3: a failure result carries the local sql_query, which is the text of the
\* last execution, or None when no text was produced, and no rows or columns.
C3_FailureKeepsLastQuery ==
    pc = "done" /\ IsFailure(ret) =>
        /\ ret.sql_query = sql_query
        /\ ret.results = 0 /\ ret.columns = 0
        /\ IF executions = << >> THEN ret.sql_query = None
           ELSE ret.sql_query = executions[Len(executions)]

\* A call that failed after one execution, the repair having given up.
C3_Witness == pc = "done" /\ IsFailure(ret) /\ Len(executions) = 1 /\ ret.sql_query # << >>

\* C4: the text of the first execution is what _validate_and_autocorrect_sql
\* returned for the text that was built, whatever built it: the execute stage
\* is entered only from the normalisation, with its output, and executes it.
C4_NormalizedBeforeExecution ==
    [][/\ (executions = << >> /\ executions' # << >> =>
              pc = "execute" /\ executions' = <<sql_query>>)
       /\ (pc # "execute" /\ pc' = "execute" =>
              /\ pc = "normalize"
              /\ sql_query' =
                     _validate_and_autocorrect_sql(sql_query, learned_aliases, Available).sql)
       /\ (pc = "execute" /\ pc' = "execute" => sql_query' = sql_query)]_vars

\* A predefined query that the normaliser changed has been executed.
C4_Witness ==
    /\ Len(executions) = 1 /\ query_source = <<"predefined">>
    /\ executions[1] # PREDEFINED_QUERIES["utilizacao_recursos"]
    /\ "dw_fact_timesheet" \in Range(executions[1])

\* The names of tables among the words of a text.
TableWords(text) == Range(text) \cap Range(AllTables)

\* C5: every table name that step 3 or the except handler puts into the query
\* is in the table list read at that step, and so is the value of every entry
\* that the step records or changes in learned_aliases.
C5_SubstitutedTablesExist ==
    [][/\ (pc = "normalize" /\ pc' = "execute" =>
              TableWords(sql_query') \ Range(sql_query) \subseteq Available)
       /\ (pc = "repair" /\ pc' = "retry" =>
              TableWords(sql_query')
                  \ Range(IF corrected' # None THEN corrected' ELSE sql_query)
                  \subseteq Available)
       /\ \A i \in DOMAIN learned_aliases' :
              (i \notin DOMAIN learned_aliases \/ learned_aliases[i] # learned_aliases'[i])
                  => learned_aliases'[i][2] \in Available]_vars

\* With a table dropped, a learned alias has been put into the query.
C5_Witness ==
    /\ pc = "execute" /\ schema # Range(AllTables)
    /\ \E i \in DOMAIN learned_aliases :
          /\ learned_aliases[i][1] \in Range(built)
          /\ learned_aliases[i][2] \in Range(sql_query) \ Range(built)

\* C6: normalising the output of _validate_and_autocorrect_sql again, under
\* the same tables, returns it unchanged when the output is schema-valid.
C6_NormalizeIdempotent ==
    [][pc = "normalized" /\ pc' = "renormalized" /\ SchemaValid(sql_query)
          => sql_query' = sql_query]_vars

\* C7: an intent template or a predefined query that is schema-valid comes back
\* unchanged from the normaliser under the full schema and no learned alias.
C7_CorrectSqlUnchanged ==
    [][(/\ pc = "text" /\ pc' = "normalized"
        /\ sql_query \in IntentTexts \cup PredefinedTexts
        /\ SchemaValid(sql_query)
        /\ schema = Range(AllTables) /\ learned_aliases = << >>)
          => sql_query' = sql_query]_vars

\* The words of the text are canonical column names.
Canonical(text) == Range(text) \subseteq SynonymValues

\* C8: no value of _COLUMN_SYNONYMS is one of its keys: the synonym pass leaves
\* a canonical column name as it is, and a second pass changes nothing.
C8_SynonymsIdempotent ==
    /\ [](SynonymValues \cap SynonymKeys = {})
    /\ [][/\ (pc = "text" /\ pc' = "mapped" /\ Canonical(sql_query)
                 => sql_query' = sql_query)
          /\ (pc = "mapped" /\ pc' = "remapped" => sql_query' = sql_query)]_vars

\* A synonym has been replaced by its canonical name, and then passed again.
C8_Witness ==
    /\ pc = "remapped" /\ built \in ColumnTexts
    /\ built[1] \in SynonymKeys /\ sql_query = <<SynonymGet(built[1], built[1])>>

\* The corrections <<wrong, correct, built>> that an earlier call recorded for
\* the text of this call: the pair was in learned_aliases when the call began,
\* the text names wrong, and the table list read now holds correct and not wrong.
Recorded ==
    {c \in corrections : /\ c[3] = built
                         /\ <<c[1], c[2]>> \in Range(aliases_before)
                         /\ c[1] \in Range(built)
                         /\ c[1] \notin Available
                         /\ c[2] \in Available}

C10_AliasesKeptAndSaved ==
    [][/\ DictKeys(learned_aliases) \subseteq DictKeys(learned_aliases')
       /\ (learned_aliases' # learned_aliases => alias_file' = learned_aliases')]_vars

\* C11: an entry of learned_aliases is recorded only after the query rewritten
\* with it has executed without error: while no execution of the call has
\* succeeded, and when the call has failed, learned_aliases is what it was
\* when the call began.
C11_LearnedAfterSuccess ==
    /\ (pc \in {"normalize", "execute", "repair", "retry"} => learned_aliases = aliases_before)
    /\ (pc = "done" /\ IsFailure(ret) => learned_aliases = aliases_before)

\* C12: a write of the alias file puts the whole dictionary of the agent that
\* writes into it and nothing else: the file is then that agent's dictionary,
\* and a key that only the other agent had learned is gone from the file.
C12_LastWriterWins ==
    [][alias_file' # alias_file =>
          /\ (learned_aliases' # learned_aliases => alias_file' = learned_aliases')
          /\ (peer_aliases' # peer_aliases => alias_file' = peer_aliases')
          /\ alias_file' \in {learned_aliases', peer_aliases'}
          /\ \A k \in DictKeys(alias_file) :
                 k \in DictKeys(alias_file') \/ k \in overwritten']_vars

\* The second agent wrote an entry, and the first agent, which learned another
\* one, wrote the file after it: the file is the first agent's dictionary.
C12_Witness ==
    /\ peer_aliases # None /\ alias_file = learned_aliases
    /\ \E k \in overwritten :
          /\ k \in DictKeys(peer_aliases) /\ k \notin DictKeys(alias_file)
          /\ \A file \in NormalizeAliases : k \notin DictKeys(file)
    /\ DictKeys(learned_aliases) \ DictKeys(peer_aliases) # {}

\* The quarter of the calendar that holds the month.
QuarterOf(month) == CHOOSE q \in 1..4 : 3 * (q - 1) < month /\ month <= 3 * q

\* C13: for every date, _last_completed_quarter gives (year - 1, 4) in the
\* first quarter and (year, q - 1) otherwise; its quarter is in 1..4 and is
\* the quarter right before the one of the date.
C13_LastCompletedQuarter ==
    unit.name = "_last_completed_quarter" /\ unit.value # << >> =>
        /\ unit.value = IF unit.args[2] \in 1..3
                        THEN <<unit.args[1] - 1, 4>>
                        ELSE <<unit.args[1], QuarterOf(unit.args[2]) - 1>>
        /\ unit.value[2] \in 1..4
        /\ 4 * unit.value[1] + unit.value[2] + 1
               = 4 * unit.args[1] + QuarterOf(unit.args[2])

\* February 15 has given the fourth quarter of the year before.
C13_Witness ==
    /\ unit.name = "_last_completed_quarter"
    /\ unit.args = <<2025, 2, 15>> /\ unit.value = <<2024, 4>>

\* C14: in a call whose input matches the count-of-clients pattern, every text
\* that is executed is the template of the intent, and no function has called
\* the language model.
C14_CountClientsWithoutModel ==
    query_source = <<"intent", "count_clients">> =>
        /\ \A i \in DOMAIN executions :
               executions[i] = _build_sql_for_intent("count_clients", 0, 0)
        /\ llm_calls = << >>

\* The text ends with the ordering and the limit of top_clientes.
OrdersByAmount(text) ==
    /\ Len(text) >= 6
    /\ SubSeq(text, Len(text) - 5, Len(text)) = <<"ORDER", "BY", "amount", "DESC", "LIMIT", "10">>

\* C15: steps 0 to 2 take the SQL from the first source that has one, intent,
\* predefined query, language model, and from that one only.  For "top
\* clientes" no intent matches: the source is "predefined", generate_sql_query
\* is not called, and the text that step 3 hands to the first execution
\* orders by amount descending with LIMIT 10.
C15_SourcesInOrder ==
    /\ [][pc = "idle" /\ pc' # "idle" =>
             \A today_year \in Years, today_month \in Months :
                IF _nl_intent(question', today_year, today_month).intent # NoMatch
                THEN /\ query_source' =
                          <<"intent", _nl_intent(question', today_year, today_month).intent>>
                     /\ llm_calls' = << >>
                ELSE IF check_predefined_queries(question') # NoMatch
                THEN /\ query_source' = <<"predefined">>
                     /\ sql_query' = PREDEFINED_QUERIES[check_predefined_queries(question')]
                     /\ llm_calls' = << >>
                ELSE \/ query_source' = <<"generated">>
                        /\ llm_calls' = <<"generate_sql_query">>
                     \/ pc' = "done" /\ IsFailure(ret') /\ ret'.sql_query = None]_vars
    /\ [](question = <<"top", "clientes">> =>
             /\ query_source = <<"predefined">>
             /\ built = PREDEFINED_QUERIES["top_clientes"]
             /\ "generate_sql_query" \notin Range(llm_calls)
             /\ (executions # << >> => OrdersByAmount(executions[1])))

\* "top clientes" has run the predefined query, normalised, at the first
\* execution, and returned its rows.
C15_Witness ==
    /\ pc = "done" /\ question = <<"top", "clientes">> /\ ~IsFailure(ret)
    /\ Len(executions) = 1 /\ OrdersByAmount(ret.sql_query)
    /\ ret.metadata.query_source = <<"predefined">>

\* The tables after FROM or JOIN in the text of the call that the table list
\* read now has not, and for which _best_table_match finds a table.
MatchedMissing ==
    {w \in Range(_extract_tables(built)) :
        w \notin Available /\ _best_table_match(w, Available) # NoMatch}

\* The table after every FROM and JOIN of after is an existing one where that
\* of before is w.
RewrittenIn(w, before, after) ==
    /\ Len(after) = Len(before)
    /\ \A i \in DOMAIN before : before[i] = w => after[i] \in Available

C17_UnrepairableFailsOnce ==
    [][(/\ pc = "repair" /\ pc' # "repair" /\ err.kind = "no such table"
        /\ _map_table_alias(Lower(err.name[1]), learned_aliases, Available) = NoMatch
        /\ corrected' = None)
          => /\ pc' = "done" /\ IsFailure(ret')
             /\ ret'.metadata.error = err
             /\ ret'.sql_query = sql_query
             /\ executions' = executions /\ Len(executions) = 1
             /\ llm_calls' \in {llm_calls, Append(llm_calls, "_fix_sql_query")}
             /\ UNCHANGED <<learned_aliases, alias_file>>]_vars

\* The call has failed with "no such table" after one execution and one
\* call of the language model that raised.
C17_Witness ==
    /\ pc = "done" /\ IsFailure(ret) /\ ret.metadata.error.kind = "no such table"
    /\ Len(executions) = 1 /\ corrected = None
    /\ llm_calls # << >> /\ llm_calls[Len(llm_calls)] = "_fix_sql_query"

\* C18: a successful result carries the row count and the path of the SQL it
\* executed, intent, predefined, generated or corrected; after a repair, which
\* is when the call has executed twice, the path is corrected.
C18_SourceOfExecutedSql ==
    pc = "done" /\ ~IsFailure(ret) =>
        /\ DOMAIN ret.metadata = {"query_source", "row_count"}
        /\ ret.metadata.row_count = ret.results
        /\ ret.metadata.query_source \in
               {<<"intent", i>> : i \in Intents}
                   \cup {<<"predefined">>, <<"generated">>, <<"corrected">>}
        /\ (Len(executions) = 2 <=> ret.metadata.query_source = <<"corrected">>)

\* The question, in lower case.
QuestionLower == AsSeq([i \in DOMAIN question |-> Lower(question[i])])

\* C19: in the keyword fallback, with the tables read, a question that names a
\* table is classified "sql", and so is a question in which the keywords of
\* both kinds occur equally often.
C19_TiesAndTablesAreSql ==
    (/\ unit.name = "classify_query" /\ unit.value # << >>
     /\ unit.args[1] = "" /\ db_up) =>
        /\ (table_mentions(QuestionLower, schema) > 0 => unit.value = <<"sql">>)
        /\ ((/\ sql_score(QuestionLower) = rag_score(QuestionLower)
             /\ sql_score(QuestionLower) > 0) => unit.value = <<"sql">>)

\* The names that _get_table_columns is asked about.
IntrospectedTables == Range(AllTables) \cup {"sales_data", "zzz"}

\* C20: _get_available_tables and _get_table_columns answer with a list in
\* every case, the empty one when the database has no table, when the table
\* does not exist and when the query fails; and when the table list is empty,
\* step 3 of process_query hands on the cleaned text with no identifier
\* replaced, and the Alias Map and the alias file are as they were.
C20_IntrospectorNeverRaises ==
    /\ [](/\ Available \subseteq schema
          /\ (~db_up => Available = {})
          /\ _get_available_tables({}, TRUE) = {}
          /\ \A table \in IntrospectedTables :
                /\ _get_table_columns(table, schema, db_up) \subseteq
                        UNION {TableColumns[t] : t \in DOMAIN TableColumns}
                /\ _get_table_columns(table, {}, TRUE) = {}
                /\ (table \notin schema \/ ~db_up =>
                        _get_table_columns(table, schema, db_up) = {}))
    /\ [][(pc = "normalize" /\ pc' = "execute" /\ Available = {}) =>
            /\ sql_query' = _clean_sql_response(sql_query)
            /\ learned_aliases' = learned_aliases
            /\ alias_file' = alias_file
            /\ corrections' = corrections]_vars

\* The table list was empty in step 3: the wrong table is still in the text
\* that goes to the executor, and nothing was learned.
C20_Witness ==
    /\ pc = "execute" /\ executions = << >> /\ ~db_up
    /\ "sales_data" \in Range(sql_query)
    /\ sql_query = _clean_sql_response(built)
    /\ learned_aliases = aliases_before

\* The table that the error of the first execution names, as the handler
\* reads it.
MissingTable == Lower(err.name[1])

\* What the handler finds for it: the learned alias when its target exists,
\* else what the heuristics of step 6 find.
TargetOfMissing ==
    IF MissingTable \in DictKeys(learned_aliases)
          /\ DictGet(learned_aliases, MissingTable) \in Available
    THEN DictGet(learned_aliases, MissingTable)
    ELSE IF IsWord(MissingTable) THEN _best_table_match(MissingTable, Available)
    ELSE NoMatch

\* C21: after "no such table" the handler takes one of two steps.  With a
\* target for the missing table, it replaces the name, the alias is in the
\* Alias Map and in the alias file, the language model is not asked, and the
\* query is executed once more.  Without a target it asks the language model
\* at most once and executes the validated answer once more, or, without an
\* answer, the call returns the failure with the error of the database.
C21_TableNotFoundRecovery ==
    [][(pc = "repair" /\ pc' # "repair" /\ err.kind = "no such table") =>
          /\ Len(executions) = 1 /\ executions' = executions
          /\ IF TargetOfMissing # NoMatch
             THEN /\ pc' = "retry"
                  /\ sql_query' = _replace_identifiers(sql_query,
                                      WordMapping(<< <<MissingTable, TargetOfMissing>> >>))
                  /\ <<MissingTable, TargetOfMissing>> \in Range(learned_aliases')
                  /\ <<MissingTable, TargetOfMissing>> \in Range(alias_file')
                  /\ llm_calls' = llm_calls
             ELSE /\ llm_calls' \in {llm_calls, Append(llm_calls, "_fix_sql_query")}
                  /\ IF Truthy(corrected')
                     THEN /\ pc' = "retry"
                          /\ sql_query' = _validate_and_autocorrect_sql(
                                              corrected', learned_aliases, Available).sql
                     ELSE /\ pc' = "done" /\ IsFailure(ret')
                          /\ ret'.metadata.error = err]_vars

\* difflib ratios of at least 0.7 between the missing columns of the
\* vocabulary and the declared columns: <<word, column, m, n>> for 2m/n.
ColumnSimilarity ==
    { <<"client_name", "client_id", 7, 20>>, <<"client_name", "client_key", 8, 21>>,
      <<"client_name", "client_name", 11, 22>>, <<"priority", "priority", 8, 16>>,
      <<"amount", "amount", 6, 12>>, <<"amount", "month", 4, 11>>,
      <<"client_key", "client_id", 7, 19>>, <<"client_key", "client_key", 10, 20>>,
      <<"client_key", "client_name", 8, 21>>, <<"client_key", "ticket_key", 7, 20>> }

\* The declared columns closest to the word among cols.
ClosestDeclared(word, cols) ==
    LET cands == {e \in ColumnSimilarity : e[1] = word /\ e[2] \in cols}
    IN  {c[2] : c \in {c \in cands : \A d \in cands : c[3] * d[4] >= d[3] * c[4]}}

\* The column that the error of the first execution names, without its
\* qualifier.
MissingColumn == err.name[Len(err.name)]

\* The declared columns of the tables of the query, of every table when the
\* query names none that exists.
DeclaredColumns ==
    LET referenced == {Lower(t) : t \in Range(_extract_tables(sql_query))} \cap Available
    IN  UNION {TableColumns[t] : t \in IF referenced # {} THEN referenced ELSE Available}

\* The repairs that the three rules allow, in their order.
ColumnRepairs ==
    LET Replaced(column) ==
            _replace_identifiers(sql_query, << <<<<MissingColumn>>, <<column>>>> >>)
    IN  IF Lower(MissingColumn) \in SynonymKeys
        THEN {Replaced(SynonymGet(Lower(MissingColumn), MissingColumn))}
        ELSE IF ClosestDeclared(MissingColumn, DeclaredColumns) # {}
        THEN {Replaced(c) : c \in ClosestDeclared(MissingColumn, DeclaredColumns)}
        ELSE IF Lower(MissingColumn) \in {"date", "billing_date", "date_id"}
                    /\ "date_key" \in DeclaredColumns
        THEN {Replaced("date_key")}
        ELSE {}

\* C22: after "no such column" the missing column is repaired by the first
\* rule that applies: its synonym, else the closest of the declared columns of
\* the tables of the query with a ratio of at least 0.7, else date_key for a
\* date column.  The repaired text is validated and executed once more without
\* the language model, which is asked only when no rule applies.
C22_MissingColumnRepaired ==
    [][(pc = "repair" /\ pc' # "repair" /\ err.kind = "no such column") =>
          /\ Len(executions) = 1 /\ executions' = executions
          /\ IF ColumnRepairs # {}
             THEN /\ corrected' \in ColumnRepairs
                  /\ pc' = "retry"
                  /\ sql_query' = _validate_and_autocorrect_sql(
                                      corrected', learned_aliases, Available).sql
                  /\ llm_calls' = llm_calls
             ELSE llm_calls' \in {llm_calls, Append(llm_calls, "_fix_sql_query")}]_vars

\* The text holds a SELECT or WITH statement.
HasStatement(text) == \E i \in DOMAIN text : Lower(text[i]) \in {"select", "with"}

\* C23: when the handler has asked the language model for a correction, an
\* answer without a SELECT or WITH statement counts as no correction: the
\* text is not executed, and the call returns the failure of the first
\* execution.
C23_ProseIsNoCorrection ==
    [][(/\ pc = "repair" /\ pc' # "repair"
        /\ llm_calls' = Append(llm_calls, "_fix_sql_query")
        /\ ~(Truthy(corrected') /\ HasStatement(corrected')))
          => /\ pc' = "done" /\ IsFailure(ret')
             /\ ret'.metadata.error = err
             /\ executions' = executions]_vars

\* The words of the templates of the intents, the year and the quarter apart.
TemplateWords ==
    UNION {Range(_build_sql_for_intent(i, 0, 0)) : i \in Intents} \ {"0"}

\* C24: for what _nl_intent returns with an intent, _build_sql_for_intent
\* returns a text, never None; the text is the one of the intent for that
\* year and quarter, whatever the question; the quarter of revenue_quarter is
\* in 1..4, the year is a number, between 2000 and 2099 when the question
\* holds it; and no word of the text comes from the question: every word is
\* one of the templates or the number of the year or of the quarter.
C24_IntentSqlFromTagOnly ==
    (unit.name = "_nl_intent" /\ pc = "built") =>
        LET i == unit.value[1]
        IN  /\ i.intent \in Intents
            /\ sql_query # << >> /\ sql_query # None
            /\ i.year \in Nat /\ i.quarter \in 0..4
            /\ (i.intent = "revenue_quarter" => i.quarter \in 1..4 /\ i.year > 0)
            /\ (i.intent = "revenue_year" => i.year > 0)
            /\ (ToString(i.year) \in Range(question) => i.year \in 2000..2099)
            /\ Range(sql_query) \subseteq
                   TemplateWords \cup {ToString(i.year), ToString(i.quarter)}
            /\ \A q \in {<<"receita", "2025">>, <<"produtos">>, question} :
                  \A y \in TodayYears, m \in Months :
                     _nl_intent(q, y, m) = i
                         => _build_sql_for_intent(_nl_intent(q, y, m).intent,
                                                  _nl_intent(q, y, m).year,
                                                  _nl_intent(q, y, m).quarter) = sql_query

\* The year of the question is in the text of revenue_year, and the words of
\* SQL of the question are not.
C24_Witness ==
    /\ unit.name = "_nl_intent" /\ pc = "built"
    /\ question = <<"receita", "2025", "DROP">>
    /\ unit.args[1] = 2026
    /\ unit.value[1].intent = "revenue_year" /\ unit.value[1].year = 2025
    /\ "2025" \in Range(sql_query) /\ "DROP" \notin Range(sql_query)

\* The aliases that the FROM and JOIN clauses of the text declare: the name
\* after a table, or after the AS that follows a table.
DeclaredAliases(sql) ==
    {sql[i] : i \in {k \in DOMAIN sql : k > 1 /\ IsName(sql[k]) /\ IsTableAlias(sql, k)}}

\* The positions of a word X next to a word Y where X is a declared alias and
\* Y, after the synonyms, a dottable column.
Dottable(sql) ==
    {i \in 1..(Len(sql) - 1) :
        /\ StartsWithLetter(sql[i]) /\ StartsWithLetter(sql[i + 1])
        /\ sql[i] \in DeclaredAliases(sql)
        /\ SynonymGet(Lower(sql[i + 1]), sql[i + 1]) \in _DOTTABLE_COLS}

\* The text with X Y rewritten into X.Y' at the positions of F.
Dotted(sql, F) ==
    Flatten([i \in DOMAIN sql |->
                IF i \in F THEN <<sql[i], ".">>
                ELSE IF i - 1 \in F THEN <<SynonymGet(Lower(sql[i]), sql[i])>>
                ELSE <<sql[i]>>], 1, Len(sql))

\* C25: what _fix_alias_column_spacing returns is its text with X Y rewritten
\* into X.Y' at some places where X is an alias that a FROM or JOIN clause of
\* the text declares and Y' is a dottable column, and with nothing else
\* changed; a text that declares no alias is returned as it is.
C25_OnlyAliasColumnPairsDotted ==
    (unit.name = "_fix_alias_column_spacing" /\ pc = "applied") =>
        /\ \E F \in SUBSET Dottable(unit.args) : unit.value = Dotted(unit.args, F)
        /\ (DeclaredAliases(unit.args) = {} => unit.value = unit.args)

\* C26: after any sequence of calls of execute_query, returned or raised, no
\* connection that a call opened is still open, and no connection has been
\* used by two calls.
C26_ConnectionClosedPerCall ==
    unit.name = "execute_query" =>
        \A i \in DOMAIN connections :
            /\ ~connections[i].open
            /\ Cardinality(connections[i].calls) = 1

\* C27: AIOrchestrator.process_query returns a result and never raises to its
\* caller, and a call in which a collaborator failed (the learned classifier,
\* the table listing, the pipeline, the learning sink) returns success false
\* and an error field.
C27_OrchestratorNeverRaises ==
    orchestrated # NoCall =>
        /\ ~orchestrated.raised
        /\ orchestrated.result # << >>
        /\ orchestrated.failed # {} =>
              /\ orchestrated.result[1].success = FALSE
              /\ "error" \in DOMAIN orchestrated.result[1]

\* The success rate of the row has risen from rows to after.
RateRaised(rows, after, key) ==
    IF key \in DOMAIN rows
    THEN after[key].successes * rows[key].usage_count
            > rows[key].successes * after[key].usage_count
    ELSE after[key].successes > 0

\* C30: a call whose SQL pipeline returns a failure result (metadata.error
\* set, no rows) returns success false, records success false in the
\* learning sink, and raises the success rate of no 'sql' pattern.
C30_FailedSqlRecordedAsFailure ==
    [][(/\ orchestrated' # orchestrated
        /\ orchestrated'.query_type = "sql"
        /\ IsFailure(orchestrated'.pipeline[1]))
       => /\ \A i \in DOMAIN orchestrated'.result : orchestrated'.result[i].success = FALSE
          /\ \A i \in DOMAIN orchestrated'.recorded : orchestrated'.recorded[i].success = FALSE
          /\ \A key \in DOMAIN query_patterns' :
                key[2] = "sql" => ~RateRaised(query_patterns, query_patterns', key)]_vars

\* A call of send_message has ended; unit keeps its content, the outcome of
\* the orchestrator, and message_count and the number of messages before it.
Called == unit.name = "send_message" /\ unit.args # << >>

StoredNothing == message_count = unit.value[1] /\ Len(messages) = unit.value[2]

\* One user message and one assistant message have been stored, the apology
\* when the orchestrator raised, and message_count has risen by 2.
StoredPair ==
    /\ Len(messages) = unit.value[2] + 2
    /\ messages[Len(messages) - 1] = [role |-> "user", content |-> Strip(unit.args[1])]
    /\ messages[Len(messages)].role = "assistant"
    /\ unit.args[2] = "raises" => messages[Len(messages)].content = "apology"
    /\ message_count = unit.value[1] + 2

\* C28 as stated: a call made when message_count is at least 20 is rejected
\* with limit_reached and stores nothing, a call with empty content is
\* rejected and stores nothing, an accepted call stores one user and one
\* assistant message and raises message_count by 2, and message_count never
\* exceeds 20.
C28_LimitThenPairs ==
    Called =>
        /\ unit.value[1] >= MessageLimit =>
              ~http_response.success /\ http_response.limit_reached /\ StoredNothing
        /\ Strip(unit.args[1]) = "" => ~http_response.success /\ StoredNothing
        /\ http_response.success => StoredPair
        /\ message_count <= MessageLimit

\* C28, amended: the content is tested before the limit.  A call with empty
\* content is rejected without limit_reached whatever message_count is; a
\* call with content made at 20 or more is rejected with limit_reached; both
\* store nothing.  Any other call stores the pair and raises message_count by
\* 2, or fails and stores nothing.  message_count never exceeds 20.
C28_ContentThenLimit ==
    Called =>
        /\ Strip(unit.args[1]) = "" =>
              http_response = Rejected(FALSE) /\ StoredNothing
        /\ (Strip(unit.args[1]) # "" /\ unit.value[1] >= MessageLimit) =>
              http_response = Rejected(TRUE) /\ StoredNothing
        /\ (Strip(unit.args[1]) # "" /\ unit.value[1] < MessageLimit) =>
              \/ http_response.success /\ StoredPair
              \/ http_response.status = 500 /\ StoredNothing
        /\ message_count <= MessageLimit
        /\ message_count = Len(messages)

\* A call with content is rejected at the limit, in a chat that holds an
\* apology.
C28_Witness ==
    /\ Called
    /\ Strip(unit.args[1]) # ""
    /\ http_response.limit_reached
    /\ message_count = MessageLimit
    /\ \E i \in DOMAIN messages : messages[i].content = "apology"

\* C29: every text that process_query hands to db.execute_query, on the first
\* attempt and on the retry, begins with SELECT or WITH.
C29_OnlySelectExecuted ==
    \A i \in DOMAIN executions : FetchesRows(executions[i])
====
